---- MODULE Spec2Model ----
(***************************************************************************)
(* A model of brickset-rs (crate brickset, module v3): the scalar codecs   *)
(* of v3/util.rs, the parameter bags and request encoders of               *)
(* v3/request.rs, the response envelope of v3/mod.rs, the payloads of      *)
(* v3/response.rs and the session wrapper of v3/reqwest_api.rs.            *)
(*                                                                         *)
(* Values are tagged tuples so that values of different Rust types can     *)
(* meet in one set: Option<T> is <<"None">> or <<"Some", v>>, Result is    *)
(* <<"Ok", v>> or <<"Err", e>>, a JSON value is <<"null">>, <<"int", n>>,  *)
(* <<"str", s>> or <<"obj", members>> with members a sequence of           *)
(* <<key, value>> pairs in document order.                                 *)
(*                                                                         *)
(* A string of data (a String or &str of the program) is a Text: the       *)
(* sequence of its chunks, a chunk being either one character that some    *)
(* encoding treats specially (a space, a quote, a comma, ...) or a maximal *)
(* run of other characters; "fire truck" is <<"fire", " ", "truck">>.      *)
(* Names fixed by the program (keys, method names, variant names) are      *)
(* TLA+ strings.                                                           *)
(***************************************************************************)
EXTENDS Integers, Sequences, FiniteSets, TLC

VARIABLES
    codec,      \* SpecCodec: the codec (serde implementation) under use
    typed,      \* SpecCodec: the Rust-side value, or Unset
    wire,       \* SpecCodec: the JSON-side value, or Unset
    last,       \* SpecCodec: the operation applied last
    prev,       \* SpecCodec: the input of the operation applied last
    outcome,    \* SpecCodec: the Result of the operation applied last
    steps,      \* SpecCodec: number of operations applied
    bag,        \* SpecRequest: the parameter bag under construction
    calls,      \* SpecRequest: the setter calls made on the bag, <<name, argument>> each
    request,    \* SpecRequest: the request built last, or Unset
    emission,   \* SpecRequest: what the request built last emitted, or Unset
    warnings,   \* SpecRequest: the warn! messages logged so far
    decoded,    \* SpecRequest: the bag's JSON text decoded back, or Unset
    wrapper,    \* SpecClient: the ClientWrapper, its api_key and user_hash
    called,     \* SpecClient: the method called last and its arguments, or Unset
    sent,       \* SpecClient: the requests the last call handed to the transport
    answered,   \* SpecClient: what the transport answered to them, or Unset
    returned    \* SpecClient: what the last call returned, or Unset

codecVars == <<codec, typed, wire, last, prev, outcome, steps>>
requestVars == <<bag, calls, request, emission, warnings, decoded>>
clientVars == <<wrapper, called, sent, answered, returned>>
vars == <<codec, typed, wire, last, prev, outcome, steps,
          bag, calls, request, emission, warnings, decoded,
          wrapper, called, sent, answered, returned>>

-----------------------------------------------------------------------------
(* Bounds of the model.                                                    *)

\* JSON integers and i32 inputs range over -IntBound..IntBound.
IntBound == 7
\* Operations applied to one value in SpecCodec.
MaxSteps == 3
\* Setter calls made on one parameter bag in SpecRequest.
MaxCalls == 2

Ints == (0 - IntBound)..IntBound

-----------------------------------------------------------------------------
(* Option, Result and JSON values.                                         *)

Unset == <<"unset">>

None == <<"None">>
Some(v) == <<"Some", v>>
is_some(o) == o[1] = "Some"
is_none(o) == o[1] = "None"

Ok(v) == <<"Ok", v>>
Err(e) == <<"Err", e>>
is_ok(r) == r[1] = "Ok"
is_err(r) == r[1] = "Err"

JNull == <<"null">>
JInt(n) == <<"int", n>>
JStr(s) == <<"str", s>>
JObj(members) == <<"obj", members>>
JBool(b) == <<"bool", b>>
JArr(items) == <<"arr", items>>

\* The object has a member of that name.
HasKey(obj, key) == \E i \in 1..Len(obj[2]) : obj[2][i][1] = key
\* The value of the first member named key (serde_json hands members to the
\* visitor in document order).
Member(obj, key) ==
    IF HasKey(obj, key)
    THEN Some(obj[2][CHOOSE i \in 1..Len(obj[2]) :
                    /\ obj[2][i][1] = key
                    /\ \A j \in 1..(i - 1) : obj[2][j][1] # key][2])
    ELSE None
\* The members of obj other than those named key.
Without(obj, key) == SelectSeq(obj[2], LAMBDA m : m[1] # key)

\* i32::deserialize on a JSON value: only a JSON integer is an i32.
i32_deserialize(j) ==
    IF j[1] = "int" THEN Ok(j[2]) ELSE Err("invalid type: expected i32")

\* String::deserialize on a JSON value.
String_deserialize(j) ==
    IF j[1] = "str" THEN Ok(j[2]) ELSE Err("invalid type: expected a string")

\* Option::<String>::deserialize on a JSON value: null is None.
Option_String_deserialize(j) ==
    IF j[1] = "null" THEN Ok(None)
    ELSE IF j[1] = "str" THEN Ok(Some(j[2]))
    ELSE Err("invalid type: expected a string")

-----------------------------------------------------------------------------
(* v3/util.rs: the scalar codecs.                                          *)

Flag == <<"Flag">>

Flag_serialize(self) == JInt(1)

Flag_deserialize_nonzero(j) ==
    LET i == i32_deserialize(j) IN
    IF is_err(i) THEN i
    ELSE IF i[2] # 0 THEN Ok(Flag)
    ELSE Err("flag must be 1, was " \o ToString(i[2]))
Flag_deserialize(j) ==
    LET i == i32_deserialize(j) IN
    IF is_err(i) THEN i
    ELSE IF i[2] = 1 THEN Ok(Flag)
    ELSE Err("flag must be 1, was " \o ToString(i[2]))

\* The literal "{Not specified}".
NotSpecified == <<"{", "Not", " ", "specified", "}">>

not_specified_optional_string_serialize(s) ==
    IF is_none(s) THEN JStr(NotSpecified) ELSE JStr(s[2])

not_specified_optional_string_deserialize_keep(j) ==
    Option_String_deserialize(j)
not_specified_optional_string_deserialize(j) ==
    LET o == Option_String_deserialize(j) IN
    IF is_err(o) THEN o
    ELSE IF is_some(o[2])
         THEN IF o[2][2] = NotSpecified THEN Ok(None) ELSE Ok(Some(o[2][2]))
         ELSE Ok(None)

zero_none_serialize(value) ==
    IF is_none(value) THEN JInt(0) ELSE JInt(value[2])

zero_none_deserialize_keep(j) ==
    LET value == i32_deserialize(j) IN
    IF is_err(value) THEN value ELSE Ok(Some(value[2]))
zero_none_deserialize(j) ==
    LET value == i32_deserialize(j) IN
    IF is_err(value) THEN value
    ELSE IF value[2] = 0 THEN Ok(None) ELSE Ok(Some(value[2]))

-----------------------------------------------------------------------------
(* v3/request.rs: the sort key.                                            *)

OrderByVariants ==
    << "Number", "YearFrom", "Pieces", "Minifigs",
       "Rating", "USRetailPrice", "UKRetailPrice", "CARetailPrice",
       "DERetailPrice", "FRRetailPrice", "USPricePerPiece", "UKPricePerPiece",
       "CAPricePerPiece", "DEPricePerPiece", "FRPricePerPiece", "Theme",
       "Subtheme", "Name", "Random", "QtyOwned",
       "OwnCount", "WantCount", "UserRating", "CollectionID",
       "NumberDESC", "YearFromDESC", "PiecesDESC", "MinifigsDESC",
       "RatingDESC", "USRetailPriceDESC", "UKRetailPriceDESC", "CARetailPriceDESC",
       "DERetailPriceDESC", "FRRetailPriceDESC", "USPricePerPieceDESC", "UKPricePerPieceDESC",
       "CAPricePerPieceDESC", "DEPricePerPieceDESC", "FRPricePerPieceDESC", "ThemeDESC",
       "SubthemeDESC", "NameDESC", "RandomDESC", "QtyOwnedDESC",
       "OwnCountDESC", "WantCountDESC", "UserRatingDESC", "CollectionIDDESC" >>

OrderBy == {OrderByVariants[i] : i \in 1..Len(OrderByVariants)}

\* A reversal with one slip: Random is mapped to itself.
OrderBy_reversed_slip(self) ==
    IF self = "Random" THEN "Random"
    ELSE IF \E b \in OrderBy : b \o "DESC" = self
         THEN CHOOSE b \in OrderBy : b \o "DESC" = self
         ELSE self \o "DESC"

\* OrderBy::reversed
OrderBy_reversed(self) ==
    CASE self = "Number" -> "NumberDESC"
      [] self = "YearFrom" -> "YearFromDESC"
      [] self = "Pieces" -> "PiecesDESC"
      [] self = "Minifigs" -> "MinifigsDESC"
      [] self = "Rating" -> "RatingDESC"
      [] self = "USRetailPrice" -> "USRetailPriceDESC"
      [] self = "UKRetailPrice" -> "UKRetailPriceDESC"
      [] self = "CARetailPrice" -> "CARetailPriceDESC"
      [] self = "DERetailPrice" -> "DERetailPriceDESC"
      [] self = "FRRetailPrice" -> "FRRetailPriceDESC"
      [] self = "USPricePerPiece" -> "USPricePerPieceDESC"
      [] self = "UKPricePerPiece" -> "UKPricePerPieceDESC"
      [] self = "CAPricePerPiece" -> "CAPricePerPieceDESC"
      [] self = "DEPricePerPiece" -> "DEPricePerPieceDESC"
      [] self = "FRPricePerPiece" -> "FRPricePerPieceDESC"
      [] self = "Theme" -> "ThemeDESC"
      [] self = "Subtheme" -> "SubthemeDESC"
      [] self = "Name" -> "NameDESC"
      [] self = "Random" -> "RandomDESC"
      [] self = "QtyOwned" -> "QtyOwnedDESC"
      [] self = "OwnCount" -> "OwnCountDESC"
      [] self = "WantCount" -> "WantCountDESC"
      [] self = "UserRating" -> "UserRatingDESC"
      [] self = "CollectionID" -> "CollectionIDDESC"
      [] self = "NumberDESC" -> "Number"
      [] self = "YearFromDESC" -> "YearFrom"
      [] self = "PiecesDESC" -> "Pieces"
      [] self = "MinifigsDESC" -> "Minifigs"
      [] self = "RatingDESC" -> "Rating"
      [] self = "USRetailPriceDESC" -> "USRetailPrice"
      [] self = "UKRetailPriceDESC" -> "UKRetailPrice"
      [] self = "CARetailPriceDESC" -> "CARetailPrice"
      [] self = "DERetailPriceDESC" -> "DERetailPrice"
      [] self = "FRRetailPriceDESC" -> "FRRetailPrice"
      [] self = "USPricePerPieceDESC" -> "USPricePerPiece"
      [] self = "UKPricePerPieceDESC" -> "UKPricePerPiece"
      [] self = "CAPricePerPieceDESC" -> "CAPricePerPiece"
      [] self = "DEPricePerPieceDESC" -> "DEPricePerPiece"
      [] self = "FRPricePerPieceDESC" -> "FRPricePerPiece"
      [] self = "ThemeDESC" -> "Theme"
      [] self = "SubthemeDESC" -> "Subtheme"
      [] self = "NameDESC" -> "Name"
      [] self = "RandomDESC" -> "Random"
      [] self = "QtyOwnedDESC" -> "QtyOwned"
      [] self = "OwnCountDESC" -> "OwnCount"
      [] self = "WantCountDESC" -> "WantCount"
      [] self = "UserRatingDESC" -> "UserRating"
      [] self = "CollectionIDDESC" -> "CollectionID"

\* #[derive(Serialize)] on a unit-variant enum: the variant's name as a string.
OrderBy_serialize(self) == JStr(<<self>>)

\* #[derive(Deserialize)]: a string naming a variant; anything else is an error.
OrderBy_deserialize(j) ==
    IF j[1] = "str"
    THEN IF Len(j[2]) = 1 /\ j[2][1] \in OrderBy THEN Ok(j[2][1])
         ELSE Err("unknown variant")
    ELSE Err("invalid type: expected variant identifier")

-----------------------------------------------------------------------------
(* v3/response.rs and v3/mod.rs: the values a response envelope holds.     *)

\* response::Error { message }
Error(message) == <<"Error", message>>
\* response::CheckKeyResponse {}
CheckKeyResponse == <<"CheckKeyResponse">>
\* response::LoginResponse { hash }
LoginResponse(hash) == <<"LoginResponse", hash>>

\* Response::Ok(T) and Response::Err(response::Error)
Response_Ok(t) == <<"Response::Ok", t>>
Response_Err(e) == <<"Response::Err", e>>

\* #[derive(Deserialize)] of response::Error from the members of an object:
\* message is required and must be a string; other members are ignored.
Error_deserialize(members) ==
    LET m == Member(JObj(members), "message") IN
    IF is_none(m) THEN Err("missing field message")
    ELSE LET s == String_deserialize(m[2]) IN
         IF is_err(s) THEN s ELSE Ok(Error(s[2]))

\* #[derive(Deserialize)] of CheckKeyResponse: no fields, members are ignored.
CheckKeyResponse_deserialize(members) == Ok(CheckKeyResponse)

\* #[derive(Deserialize)] of LoginResponse: hash is required, a string.
LoginResponse_deserialize(members) ==
    LET h == Member(JObj(members), "hash") IN
    IF is_none(h) THEN Err("missing field hash")
    ELSE LET s == String_deserialize(h[2]) IN
         IF is_err(s) THEN s ELSE Ok(LoginResponse(s[2]))

-----------------------------------------------------------------------------
(* Text rendering: url::form_urlencoded and serde_json::to_string.         *)

\* The concatenation of a sequence of TLA+ strings.
RECURSIVE Concat(_)
Concat(ss) == IF ss = <<>> THEN "" ELSE Head(ss) \o Concat(Tail(ss))

\* form_urlencoded::byte_serialize on one chunk: a space becomes "+", the
\* characters outside [A-Za-z0-9*-._] are percent-encoded, the rest is kept.
byte_serialize(chunk) ==
    CASE chunk = " " -> "+"
      [] chunk = "&" -> "%26"
      [] chunk = "=" -> "%3D"
      [] chunk = "\"" -> "%22"
      [] chunk = "\\" -> "%5C"
      [] chunk = "{" -> "%7B"
      [] chunk = "}" -> "%7D"
      [] chunk = ":" -> "%3A"
      [] chunk = "," -> "%2C"
      [] OTHER -> chunk

\* A text, form-urlencoded.
UrlEncoded(text) == Concat([i \in 1..Len(text) |-> byte_serialize(text[i])])

\* Serializer::append_pair for each pair in turn, then finish(): the pairs
\* as name=value, joined by "&".
RECURSIVE form_urlencoded(_)
form_urlencoded(pairs) ==
    IF pairs = <<>> THEN ""
    ELSE UrlEncoded(<<pairs[1][1]>>) \o "=" \o UrlEncoded(pairs[1][2])
         \o (IF Len(pairs) > 1 THEN "&" ELSE "")
         \o form_urlencoded(Tail(pairs))

\* serde_json's string escaping: a quote or a backslash gets a backslash.
RECURSIVE JsonEscape(_)
JsonEscape(text) ==
    IF text = <<>> THEN <<>>
    ELSE (IF Head(text) \in {"\"", "\\"} THEN <<"\\", Head(text)>> ELSE <<Head(text)>>)
         \o JsonEscape(Tail(text))

\* The compact JSON text of a scalar.
JsonScalar(j) ==
    CASE j[1] = "null" -> <<"null">>
      [] j[1] = "int" -> <<ToString(j[2])>>
      [] j[1] = "str" -> <<"\"">> \o JsonEscape(j[2]) \o <<"\"">>

RECURSIVE JsonMembers(_)
JsonMembers(members) ==
    IF members = <<>> THEN <<>>
    ELSE <<"\"", members[1][1], "\"", ":">> \o JsonScalar(members[1][2])
         \o (IF Len(members) > 1 THEN <<",">> ELSE <<>>)
         \o JsonMembers(Tail(members))

\* serde_json::to_string on an object of scalars: {"k":v,...}, no spaces.
serde_json_to_string(obj) == <<"{">> \o JsonMembers(obj[2]) \o <<"}">>

-----------------------------------------------------------------------------
(* v3/request.rs: the parameter bags.                                      *)

\* A member for an Option field under skip_serializing_if = "Option::is_none".
SkipNone(key, o, value) == IF is_none(o) THEN <<>> ELSE << <<key, value>> >>

\* GetSetsParameters::default()
GetSetsParameters_new ==
    [set_id |-> None, query |-> None, theme |-> None, subtheme |-> None,
     full_set_number |-> None, year |-> <<>>, tag |-> None, owned |-> None,
     wanted |-> None, updated_since |-> None, order_by |-> None,
     page_size |-> None, page_number |-> None, extended_data |-> None]

GetSetsParameters_set_id(self, set_id) == [self EXCEPT !.set_id = Some(set_id)]
\* A year that adds the year to the list.
GetSetsParameters_year_appending(self, year) ==
    [self EXCEPT !.year = Append(self.year, year)]
GetSetsParameters_year(self, year) == [self EXCEPT !.year = <<year>>]
GetSetsParameters_years(self, year) == [self EXCEPT !.year = year]
GetSetsParameters_query(self, query) == [self EXCEPT !.query = Some(query)]
GetSetsParameters_theme(self, theme) == [self EXCEPT !.theme = Some(theme)]
GetSetsParameters_subtheme(self, subtheme) ==
    [self EXCEPT !.subtheme = Some(subtheme)]
GetSetsParameters_full_set_number(self, full_set_number) ==
    [self EXCEPT !.full_set_number = Some(full_set_number)]
GetSetsParameters_tag(self, tag) == [self EXCEPT !.tag = Some(tag)]

\* An owned_by_user that can set the flag but not take it back.
GetSetsParameters_owned_by_user_sticky(self, owned) ==
    IF owned THEN [self EXCEPT !.owned = Some(Flag)] ELSE self
GetSetsParameters_owned_by_user(self, owned) ==
    [self EXCEPT !.owned = IF owned THEN Some(Flag) ELSE None]

GetSetsParameters_wanted_by_user(self, wanted) ==
    [self EXCEPT !.wanted = IF wanted THEN Some(Flag) ELSE None]
GetSetsParameters_extended_data(self, extended_data) ==
    [self EXCEPT !.extended_data = IF extended_data THEN Some(Flag) ELSE None]
GetSetsParameters_updated_since(self, date) ==
    [self EXCEPT !.updated_since = Some(date)]
GetSetsParameters_order_by(self, order_by) ==
    [self EXCEPT !.order_by = Some(order_by)]

\* A page_size that keeps the value within what the service accepts.
GetSetsParameters_page_size_clamped(self, page_size) ==
    [self EXCEPT !.page_size =
        Some(IF page_size > 500 THEN 500 ELSE IF page_size = 0 THEN 1 ELSE page_size)]
\* page_size stores the value whatever it is; the warnings are page_size_warnings.
GetSetsParameters_page_size(self, page_size) ==
    [self EXCEPT !.page_size = Some(page_size)]
\* The warn! calls of page_size (feature "log").
page_size_warnings(page_size) ==
    IF page_size > 500
    THEN <<"Given page_size was " \o ToString(page_size) \o ", but the maximum is 500">>
    ELSE IF page_size = 0 THEN <<"Zero page size is not valid">>
    ELSE <<>>

GetSetsParameters_page_number(self, page_number) ==
    [self EXCEPT !.page_number = Some(page_number)]

\* Two digits, zero-padded.
Pad2(n) == IF n < 10 THEN "0" \o ToString(n) ELSE ToString(n)

\* updated_since_format::serialize: the date as %Y-%m-%d.  It unwraps the
\* Option: on None it panics (the field is skipped when None).
updated_since_format_serialize(date) ==
    IF is_none(date) THEN <<"panic">>
    ELSE JStr(<<ToString(date[2][1]) \o "-" \o Pad2(date[2][2]) \o "-" \o Pad2(date[2][3])>>)

\* itertools format(", "): the items in decimal, joined by ", ".
RECURSIVE JoinCommaSpace(_)
JoinCommaSpace(years) ==
    IF years = <<>> THEN <<>>
    ELSE <<ToString(Head(years))>>
         \o (IF Len(years) > 1 THEN <<",", " ">> ELSE <<>>)
         \o JoinCommaSpace(Tail(years))

\* int_vec_as_commastr::serialize
int_vec_as_commastr_serialize(years) == JStr(JoinCommaSpace(years))

\* str::split(pat) for a one-character pattern, read from the character
\* at from on: the pieces between the occurrences of pat, empty pieces
\* included.
RECURSIVE split(_, _, _)
split(s, pat, from) ==
    LET stops == {i \in from..Len(s) : SubSeq(s, i, i) = pat} IN
    IF stops = {} THEN <<SubSeq(s, from, Len(s))>>
    ELSE LET i == CHOOSE k \in stops : \A m \in stops : k <= m
         IN  <<SubSeq(s, from, i - 1)>> \o split(s, pat, i + 1)

\* str::trim: the string without its leading and trailing whitespace.
trim(s) ==
    LET inked == {i \in 1..Len(s) : SubSeq(s, i, i) \notin {" ", "\t", "\n", "\r"}} IN
    IF inked = {} THEN ""
    ELSE SubSeq(s, CHOOSE k \in inked : \A m \in inked : k <= m,
                   CHOOSE k \in inked : \A m \in inked : k >= m)

i32_MAX == 2147483647

\* char::to_digit(10)
to_digit(c) ==
    LET digits == <<"0", "1", "2", "3", "4", "5", "6", "7", "8", "9">> IN
    IF \E d \in 1..10 : digits[d] = c
    THEN Some((CHOOSE d \in 1..10 : digits[d] = c) - 1)
    ELSE None

\* The digit loop of from_str_radix: acc * 10 + sign * digit for each
\* character in turn, with i32's checked arithmetic.
RECURSIVE from_str_radix_digits(_, _, _)
from_str_radix_digits(digits, sign, acc) ==
    IF digits = "" THEN Ok(acc)
    ELSE LET x == to_digit(SubSeq(digits, 1, 1)) IN
         IF is_none(x) THEN Err("invalid digit found in string")
         ELSE IF sign = 1 /\ acc > (i32_MAX - x[2]) \div 10
         THEN Err("number too large to fit in target type")
         ELSE IF sign = 0 - 1 /\ (0 - acc) > ((i32_MAX - x[2]) + 1) \div 10
         THEN Err("number too small to fit in target type")
         ELSE from_str_radix_digits(SubSeq(digits, 2, Len(digits)), sign,
                                    acc * 10 + sign * x[2])

\* i32::from_str_radix(src, 10): an optional sign, then decimal digits.
i32_from_str_radix(src) ==
    IF src = "" THEN Err("cannot parse integer from empty string")
    ELSE IF src \in {"+", "-"} THEN Err("invalid digit found in string")
    ELSE IF SubSeq(src, 1, 1) = "+"
    THEN from_str_radix_digits(SubSeq(src, 2, Len(src)), 1, 0)
    ELSE IF SubSeq(src, 1, 1) = "-"
    THEN from_str_radix_digits(SubSeq(src, 2, Len(src)), 0 - 1, 0)
    ELSE from_str_radix_digits(src, 1, 0)

\* The loop of int_vec_as_commastr::deserialize: every token parsed in
\* turn and pushed; the first token that does not parse ends the loop
\* with its error.
RECURSIVE push_parsed(_)
push_parsed(tokens) ==
    IF tokens = <<>> THEN Ok(<<>>)
    ELSE LET i == i32_from_str_radix(Head(tokens)) IN
         IF is_err(i) THEN i
         ELSE LET rest == push_parsed(Tail(tokens)) IN
              IF is_err(rest) THEN rest ELSE Ok(<<i[2]>> \o rest[2])

int_vec_as_commastr_deserialize_untrimmed(j) ==
    CASE j[1] = "str" -> push_parsed(split(Concat(j[2]), ",", 1))
      [] j[1] = "int" -> Ok(<<j[2]>>)
      [] OTHER -> Err("data did not match any variant of untagged enum StringOrInt")
int_vec_as_commastr_deserialize_lenient(j) ==
    CASE j[1] = "str" ->
            LET tokens == split(Concat(j[2]), ",", 1) IN
            Ok(SelectSeq([i \in 1..Len(tokens) |->
                            LET n == i32_from_str_radix(trim(tokens[i])) IN
                            IF is_ok(n) THEN n[2] ELSE i32_MAX],
                         LAMBDA n : n # i32_MAX))
      [] j[1] = "int" -> Ok(<<j[2]>>)
      [] OTHER -> Err("data did not match any variant of untagged enum StringOrInt")
\* int_vec_as_commastr::deserialize: StringOrInt is untagged, so a JSON
\* string is the String variant and a JSON integer the Int variant.
int_vec_as_commastr_deserialize(j) ==
    CASE j[1] = "str" ->
            LET tokens == split(Concat(j[2]), ",", 1) IN
            push_parsed([i \in 1..Len(tokens) |-> trim(tokens[i])])
      [] j[1] = "int" -> Ok(<<j[2]>>)
      [] OTHER -> Err("data did not match any variant of untagged enum StringOrInt")

\* #[derive(Serialize)] #[serde(rename_all = "camelCase")] on
\* GetSetsParameters: the fields in declaration order, each skipped when
\* None (year: when empty).
GetSetsParameters_serialize(self) ==
    JObj(   SkipNone("setId", self.set_id, JInt(self.set_id[2]))
         \o SkipNone("query", self.query, JStr(self.query[2]))
         \o SkipNone("theme", self.theme, JStr(self.theme[2]))
         \o SkipNone("subtheme", self.subtheme, JStr(self.subtheme[2]))
         \o SkipNone("setNumber", self.full_set_number, JStr(self.full_set_number[2]))
         \o (IF self.year = <<>> THEN <<>>
             ELSE << <<"year", int_vec_as_commastr_serialize(self.year)>> >>)
         \o SkipNone("tag", self.tag, JStr(self.tag[2]))
         \o SkipNone("owned", self.owned, Flag_serialize(self.owned[2]))
         \o SkipNone("wanted", self.wanted, Flag_serialize(self.wanted[2]))
         \o SkipNone("updatedSince", self.updated_since,
                     updated_since_format_serialize(self.updated_since))
         \o SkipNone("orderBy", self.order_by, OrderBy_serialize(self.order_by[2]))
         \o SkipNone("pageSize", self.page_size, JInt(self.page_size[2]))
         \o SkipNone("pageNumber", self.page_number, JInt(self.page_number[2]))
         \o SkipNone("extendedData", self.extended_data,
                     Flag_serialize(self.extended_data[2])))

\* SetCollectionParameters::default()
SetCollectionParameters_new ==
    [own |-> None, want |-> None, qty_owned |-> None, notes |-> None, rating |-> None]

\* An owned that stores the zero, as SetMinifigCollectionParameters does.
SetCollectionParameters_owned_zero(self, qty_owned) ==
    [self EXCEPT !.own = IF qty_owned = 0 THEN Some(0) ELSE Some(1),
                 !.qty_owned = Some(qty_owned)]
SetCollectionParameters_owned(self, qty_owned) ==
    [self EXCEPT !.own = IF qty_owned = 0 THEN None ELSE Some(1),
                 !.qty_owned = Some(qty_owned)]
SetCollectionParameters_wanted(self, wanted) ==
    [self EXCEPT !.want = IF wanted THEN Some(1) ELSE Some(0)]
SetCollectionParameters_notes(self, notes) == [self EXCEPT !.notes = Some(notes)]
SetCollectionParameters_rating(self, rating) == [self EXCEPT !.rating = Some(rating)]

\* #[derive(Serialize)] on SetCollectionParameters
SetCollectionParameters_serialize(self) ==
    JObj(   SkipNone("own", self.own, JInt(self.own[2]))
         \o SkipNone("want", self.want, JInt(self.want[2]))
         \o SkipNone("qtyOwned", self.qty_owned, JInt(self.qty_owned[2]))
         \o SkipNone("notes", self.notes, JStr(self.notes[2]))
         \o SkipNone("rating", self.rating, JInt(self.rating[2])))

\* GetMinifigCollectionParameters::default(), ::owned() and ::wanted()
GetMinifigCollectionParameters_default ==
    [owned |-> None, wanted |-> None, query |-> None]
GetMinifigCollectionParameters_owned ==
    [GetMinifigCollectionParameters_default EXCEPT !.owned = Some(Flag)]
GetMinifigCollectionParameters_wanted ==
    [GetMinifigCollectionParameters_default EXCEPT !.wanted = Some(Flag)]
GetMinifigCollectionParameters_query(self, query) ==
    [self EXCEPT !.query = Some(query)]

\* #[derive(Serialize)] on GetMinifigCollectionParameters
GetMinifigCollectionParameters_serialize(self) ==
    JObj(   SkipNone("owned", self.owned, Flag_serialize(self.owned[2]))
         \o SkipNone("wanted", self.wanted, Flag_serialize(self.wanted[2]))
         \o SkipNone("query", self.query, JStr(self.query[2])))

\* SetMinifigCollectionParameters::default()
SetMinifigCollectionParameters_new ==
    [own |-> None, want |-> None, qty_owned |-> None, notes |-> None]

\* An owned with the convention of SetCollectionParameters::owned.
SetMinifigCollectionParameters_owned_as_set(self, qty_owned) ==
    IF qty_owned = 0
    THEN [self EXCEPT !.own = None, !.qty_owned = Some(0)]
    ELSE [self EXCEPT !.own = Some(1), !.qty_owned = Some(qty_owned)]
SetMinifigCollectionParameters_owned(self, qty_owned) ==
    IF qty_owned = 0
    THEN [self EXCEPT !.own = Some(0), !.qty_owned = None]
    ELSE [self EXCEPT !.own = None, !.qty_owned = Some(qty_owned)]
SetMinifigCollectionParameters_wanted(self, wanted) ==
    [self EXCEPT !.want = IF wanted THEN Some(1) ELSE Some(0)]
SetMinifigCollectionParameters_notes(self, notes) ==
    [self EXCEPT !.notes = Some(notes)]

\* #[derive(Serialize)] on SetMinifigCollectionParameters
SetMinifigCollectionParameters_serialize(self) ==
    JObj(   SkipNone("own", self.own, JInt(self.own[2]))
         \o SkipNone("want", self.want, JInt(self.want[2]))
         \o SkipNone("qtyOwned", self.qty_owned, JInt(self.qty_owned[2]))
         \o SkipNone("notes", self.notes, JStr(self.notes[2])))

\* The Serialize implementation of the bag <<type, fields>>.
Params_serialize(b) ==
    CASE b[1] = "GetSetsParameters" -> GetSetsParameters_serialize(b[2])
      [] b[1] = "SetCollectionParameters" -> SetCollectionParameters_serialize(b[2])
      [] b[1] = "GetMinifigCollectionParameters" ->
            GetMinifigCollectionParameters_serialize(b[2])
      [] b[1] = "SetMinifigCollectionParameters" ->
            SetMinifigCollectionParameters_serialize(b[2])

\* #[serde(rename_all = "camelCase")], #[serde(rename = "setNumber")]: the
\* key and the field of each member of each bag, in declaration order.
BagFields(type) ==
    CASE type = "GetSetsParameters" ->
            << <<"setId", "set_id">>, <<"query", "query">>, <<"theme", "theme">>,
               <<"subtheme", "subtheme">>, <<"setNumber", "full_set_number">>,
               <<"year", "year">>, <<"tag", "tag">>, <<"owned", "owned">>,
               <<"wanted", "wanted">>, <<"updatedSince", "updated_since">>,
               <<"orderBy", "order_by">>, <<"pageSize", "page_size">>,
               <<"pageNumber", "page_number">>, <<"extendedData", "extended_data">> >>
      [] type = "SetCollectionParameters" ->
            << <<"own", "own">>, <<"want", "want">>, <<"qtyOwned", "qty_owned">>,
               <<"notes", "notes">>, <<"rating", "rating">> >>
      [] type = "GetMinifigCollectionParameters" ->
            << <<"owned", "owned">>, <<"wanted", "wanted">>, <<"query", "query">> >>
      [] type = "SetMinifigCollectionParameters" ->
            << <<"own", "own">>, <<"want", "want">>, <<"qtyOwned", "qty_owned">>,
               <<"notes", "notes">> >>

\* <&str>::deserialize: the string is borrowed from the input, which
\* serde_json can do only for a string written without escapes.
str_deserialize(j) ==
    IF j[1] # "str" THEN Err("invalid type: expected a borrowed string")
    ELSE IF \E i \in 1..Len(j[2]) : j[2][i] \in {"\"", "\\"}
    THEN Err("invalid type: string, expected a borrowed string")
    ELSE Ok(j[2])

\* u64::deserialize and usize::deserialize: a JSON integer that is not
\* negative.
unsigned_deserialize(j) ==
    IF j[1] # "int" THEN Err("invalid type: expected an unsigned integer")
    ELSE IF j[2] < 0 THEN Err("invalid value: expected an unsigned integer")
    ELSE Ok(j[2])

\* Option::<T>::deserialize: null is None, anything else is Some of what
\* T::deserialize gives for it (t).
Option_deserialize(j, t) ==
    IF j[1] = "null" THEN Ok(None)
    ELSE IF is_err(t) THEN t ELSE Ok(Some(t[2]))

\* NaiveDate::parse_from_str(text, "%Y-%m-%d"): the year, then a month and
\* a day of one or two digits each that name a day of the calendar.
NaiveDate_parse_from_str(text) ==
    LET dated(parts, y, m, d) ==
            LET leap == (y[2] % 4 = 0 /\ y[2] % 100 # 0) \/ y[2] % 400 = 0
                days == <<31, IF leap THEN 29 ELSE 28, 31, 30, 31, 30, 31, 31, 30, 31, 30, 31>>
            IN  IF Len(parts) # 3 \/ is_err(y) \/ is_err(m) \/ is_err(d)
                   \/ Len(parts[2]) > 2 \/ Len(parts[3]) > 2
                   \/ SubSeq(parts[2], 1, 1) \in {"+", "-"}
                   \/ SubSeq(parts[3], 1, 1) \in {"+", "-"}
                THEN Err("input contains invalid characters")
                ELSE IF m[2] \notin 1..12 \/ d[2] \notin 1..days[m[2]]
                THEN Err("input is out of range")
                ELSE Ok(<<y[2], m[2], d[2]>>)
        parted(parts) ==
            dated(parts, i32_from_str_radix(parts[1]), i32_from_str_radix(parts[2]),
                  i32_from_str_radix(parts[3]))
    IN  IF text = "" THEN Err("premature end of input")
        ELSE parted(split(text, "-", 1))

\* updated_since_format::deserialize: a String, parsed as %Y-%m-%d.
updated_since_format_deserialize(j) ==
    LET text == String_deserialize(j) IN
    IF is_err(text) THEN text
    ELSE LET date == NaiveDate_parse_from_str(Concat(text[2])) IN
         IF is_err(date) THEN date ELSE Ok(Some(date[2]))

\* The Deserialize implementation behind the member named key of a bag.
Field_deserialize(key, j) ==
    CASE key \in {"setId", "pageSize", "pageNumber", "own", "want", "qtyOwned"} ->
            Option_deserialize(j, unsigned_deserialize(j))
      [] key \in {"query", "theme", "subtheme", "setNumber", "tag", "notes"} ->
            Option_deserialize(j, str_deserialize(j))
      [] key \in {"owned", "wanted", "extendedData"} ->
            Option_deserialize(j, Flag_deserialize(j))
      [] key = "rating" -> Option_deserialize(j, i32_deserialize(j))
      [] key = "orderBy" -> Option_deserialize(j, OrderBy_deserialize(j))
      [] key = "updatedSince" -> updated_since_format_deserialize(j)
      [] key = "year" -> int_vec_as_commastr_deserialize(j)

\* The members a bag cannot be decoded without: a field decoded with a
\* module (serde(with)) and without serde(default).
Required(type) == IF type = "GetSetsParameters" THEN {"year"} ELSE {}

\* Default::default() of each bag.
Params_default(type) ==
    CASE type = "GetSetsParameters" -> GetSetsParameters_new
      [] type = "SetCollectionParameters" -> SetCollectionParameters_new
      [] type = "GetMinifigCollectionParameters" -> GetMinifigCollectionParameters_default
      [] type = "SetMinifigCollectionParameters" -> SetMinifigCollectionParameters_new

\* #[derive(Deserialize)] on the bag named type, applied to a JSON value:
\* the members are visited in document order, a member that is no field is
\* ignored, a field met twice or a member that does not decode ends the
\* decoding with an error; then a field that was not met takes its
\* default, or is an error if it has none.
Params_deserialize(type, j) ==
    LET table == BagFields(type)
        keys == {table[k][1] : k \in 1..Len(table)}
        members == IF j[1] = "obj" THEN j[2] ELSE <<>>
        failing == {i \in 1..Len(members) :
                        /\ members[i][1] \in keys
                        /\ \/ \E k \in 1..(i - 1) : members[k][1] = members[i][1]
                           \/ is_err(Field_deserialize(members[i][1], members[i][2]))}
        missing == {k \in 1..Len(table) :
                        table[k][1] \in Required(type) /\ ~ HasKey(j, table[k][1])}
    IN  IF j[1] # "obj" THEN Err("invalid type: expected struct " \o type)
        ELSE IF failing # {}
        THEN LET i == CHOOSE k \in failing : \A m \in failing : k <= m IN
             IF \E k \in 1..(i - 1) : members[k][1] = members[i][1]
             THEN Err("duplicate field " \o members[i][1])
             ELSE Field_deserialize(members[i][1], members[i][2])
        ELSE IF missing # {}
        THEN Err("missing field "
                 \o table[CHOOSE k \in missing : \A m \in missing : k <= m][1])
        ELSE Ok([f \in DOMAIN Params_default(type) |->
                    LET k == CHOOSE n \in 1..Len(table) : table[n][2] = f IN
                    IF HasKey(j, table[k][1])
                    THEN Field_deserialize(table[k][1], Member(j, table[k][1])[2])[2]
                    ELSE Params_default(type)[f]])

-----------------------------------------------------------------------------
(* v3/request.rs: the requests and their encoders.  A request is           *)
(* <<type, fields>>; encode_query gives the pairs appended to the          *)
(* serializer, in order.                                                   *)

ENDPOINT == "https://brickset.com/api/v3.asmx/"

CheckKey_new(api_key) == <<"CheckKey", [api_key |-> api_key]>>
Login_new(api_key, username, password) ==
    <<"Login", [api_key |-> api_key, username |-> username, password |-> password]>>
CheckUserHash_new(api_key, user_hash) ==
    <<"CheckUserHash", [api_key |-> api_key, user_hash |-> user_hash]>>
GetKeyUsageStats_new(api_key) == <<"GetKeyUsageStats", [api_key |-> api_key]>>
GetSets_new(api_key, user_hash, params) ==
    <<"GetSets", [api_key |-> api_key, user_hash |-> user_hash, params |-> params]>>
GetAdditionalImages_new(api_key, set_id) ==
    <<"GetAdditionalImages", [api_key |-> api_key, set_id |-> set_id]>>
GetInstructions_new(api_key, set_id) ==
    <<"GetInstructions", [api_key |-> api_key, set_id |-> set_id]>>
GetInstructions2_new(api_key, set_number) ==
    <<"GetInstructions2", [api_key |-> api_key, set_number |-> set_number]>>
GetReviews_new(api_key, set_id) ==
    <<"GetReviews", [api_key |-> api_key, set_id |-> set_id]>>
GetThemes_new(api_key) == <<"GetThemes", [api_key |-> api_key]>>
GetSubthemes_new(api_key, theme) ==
    <<"GetSubthemes", [api_key |-> api_key, theme |-> theme]>>
GetYears_new(api_key, theme) ==
    <<"GetYears", [api_key |-> api_key, theme |-> theme]>>
SetCollection_new(api_key, user_hash, set_id, params) ==
    <<"SetCollection", [api_key |-> api_key, user_hash |-> user_hash,
                        set_id |-> set_id, params |-> params]>>
GetUserNotes_new(api_key, user_hash) ==
    <<"GetUserNotes", [api_key |-> api_key, user_hash |-> user_hash]>>
GetMinifigCollection_new(api_key, user_hash, params) ==
    <<"GetMinifigCollection", [api_key |-> api_key, user_hash |-> user_hash,
                               params |-> params]>>
SetMinifigCollection_new(api_key, user_hash, minifig_number, params) ==
    <<"SetMinifigCollection", [api_key |-> api_key, user_hash |-> user_hash,
                               minifig_number |-> minifig_number, params |-> params]>>
GetUserMinifigNotes_new(api_key, user_hash) ==
    <<"GetUserMinifigNotes", [api_key |-> api_key, user_hash |-> user_hash]>>

\* BricksetRequest::method_name, per implementation
method_name(req) ==
    CASE req[1] = "CheckKey" -> "checkKey"
      [] req[1] = "Login" -> "login"
      [] req[1] = "CheckUserHash" -> "checkUserHash"
      [] req[1] = "GetKeyUsageStats" -> "getKeyUsageStats"
      [] req[1] = "GetSets" -> "getSets"
      [] req[1] = "GetAdditionalImages" -> "getAdditionalImages"
      [] req[1] = "GetInstructions" -> "getInstructions"
      [] req[1] = "GetInstructions2" -> "getInstructions2"
      [] req[1] = "GetReviews" -> "getReviews"
      [] req[1] = "GetThemes" -> "getThemes"
      [] req[1] = "GetSubthemes" -> "getSubthemes"
      [] req[1] = "GetYears" -> "getYears"
      [] req[1] = "SetCollection" -> "setCollection"
      [] req[1] = "GetUserNotes" -> "getUserNotes"
      [] req[1] = "GetMinifigCollection" -> "getMinifigCollection"
      [] req[1] = "SetMinifigCollection" -> "setMinifigCollection"
      [] req[1] = "GetUserMinifigNotes" -> "getUserMinifigNotes"

\* u64::to_string
to_string(n) == <<ToString(n)>>

\* A check-key encoder that also sends an empty userHash.
CheckKey_encode_query_hash(self) ==
    << <<"apiKey", self.api_key>>, <<"userHash", <<>> >> >>
CheckKey_encode_query(self) == << <<"apiKey", self.api_key>> >>

Login_encode_query(self) ==
    << <<"apiKey", self.api_key>>, <<"username", self.username>>,
       <<"password", self.password>> >>

CheckUserHash_encode_query(self) ==
    << <<"apiKey", self.api_key>>, <<"userHash", self.user_hash>> >>

GetKeyUsageStats_encode_query(self) == << <<"apiKey", self.api_key>> >>

\* A catalog-query encoder that sends the session token before the API key.
GetSets_encode_query_hash_first(self) ==
    << <<"userHash", IF is_some(self.user_hash) THEN self.user_hash[2] ELSE <<>> >>,
       <<"apiKey", self.api_key>>,
       <<"params", serde_json_to_string(GetSetsParameters_serialize(self.params))>> >>
\* A GetSets::encode_query that refuses what the service would refuse.
GetSets_encode_query_strict(self) ==
    IF (is_some(self.params.wanted) \/ is_some(self.params.owned))
        /\ is_none(self.user_hash)
    THEN <<>>
    ELSE << <<"apiKey", self.api_key>>,
            <<"params", serde_json_to_string(GetSetsParameters_serialize(self.params))>>,
            <<"userHash", IF is_some(self.user_hash) THEN self.user_hash[2] ELSE <<>> >> >>
\* A GetSets::encode_query that leaves the userHash pair out when there is
\* no token.
GetSets_encode_query_skipping(self) ==
    << <<"apiKey", self.api_key>>,
       <<"params", serde_json_to_string(GetSetsParameters_serialize(self.params))>> >>
    \o IF is_some(self.user_hash) THEN << <<"userHash", self.user_hash[2]>> >> ELSE <<>>
GetSets_encode_query(self) ==
    LET params == serde_json_to_string(GetSetsParameters_serialize(self.params)) IN
    << <<"apiKey", self.api_key>>,
       <<"params", params>>,
       <<"userHash", IF is_some(self.user_hash) THEN self.user_hash[2] ELSE <<>> >> >>

\* The warn! of GetSets::encode_query (feature "log").
GetSets_encode_warnings(self) ==
    IF (is_some(self.params.wanted) \/ is_some(self.params.owned))
        /\ is_none(self.user_hash)
    THEN <<"User hash is required when wanted/owned parameters are used in GetSets">>
    ELSE <<>>

GetAdditionalImages_encode_query(self) ==
    << <<"apiKey", self.api_key>>, <<"setID", to_string(self.set_id)>> >>

GetInstructions_encode_query(self) ==
    << <<"apiKey", self.api_key>>, <<"setID", to_string(self.set_id)>> >>

GetInstructions2_encode_query(self) ==
    << <<"apiKey", self.api_key>>, <<"setNumber", self.set_number>> >>

GetReviews_encode_query(self) ==
    << <<"apiKey", self.api_key>>, <<"setID", to_string(self.set_id)>> >>

GetThemes_encode_query(self) == << <<"apiKey", self.api_key>> >>

GetSubthemes_encode_query(self) ==
    << <<"apiKey", self.api_key>>, <<"theme", self.theme>> >>

GetYears_encode_query(self) ==
    << <<"apiKey", self.api_key>>, <<"theme", self.theme>> >>

SetCollection_encode_query(self) ==
    LET params == serde_json_to_string(SetCollectionParameters_serialize(self.params)) IN
    << <<"apiKey", self.api_key>>,
       <<"userHash", self.user_hash>>,
       <<"setID", to_string(self.set_id)>>,
       <<"params", params>> >>

GetUserNotes_encode_query(self) ==
    << <<"apiKey", self.api_key>>, <<"userHash", self.user_hash>> >>

GetMinifigCollection_encode_query(self) ==
    LET params ==
            serde_json_to_string(GetMinifigCollectionParameters_serialize(self.params)) IN
    << <<"apiKey", self.api_key>>,
       <<"userHash", self.user_hash>>,
       <<"params", params>> >>

SetMinifigCollection_encode_query(self) ==
    LET params ==
            serde_json_to_string(SetMinifigCollectionParameters_serialize(self.params)) IN
    << <<"apiKey", self.api_key>>,
       <<"userHash", self.user_hash>>,
       <<"minifigNumber", self.minifig_number>>,
       <<"params", params>> >>

GetUserMinifigNotes_encode_query(self) ==
    << <<"apiKey", self.api_key>>, <<"userHash", self.user_hash>> >>

\* BricksetRequest::encode_query, per implementation
encode_query(req) ==
    CASE req[1] = "CheckKey" -> CheckKey_encode_query(req[2])
      [] req[1] = "Login" -> Login_encode_query(req[2])
      [] req[1] = "CheckUserHash" -> CheckUserHash_encode_query(req[2])
      [] req[1] = "GetKeyUsageStats" -> GetKeyUsageStats_encode_query(req[2])
      [] req[1] = "GetSets" -> GetSets_encode_query(req[2])
      [] req[1] = "GetAdditionalImages" -> GetAdditionalImages_encode_query(req[2])
      [] req[1] = "GetInstructions" -> GetInstructions_encode_query(req[2])
      [] req[1] = "GetInstructions2" -> GetInstructions2_encode_query(req[2])
      [] req[1] = "GetReviews" -> GetReviews_encode_query(req[2])
      [] req[1] = "GetThemes" -> GetThemes_encode_query(req[2])
      [] req[1] = "GetSubthemes" -> GetSubthemes_encode_query(req[2])
      [] req[1] = "GetYears" -> GetYears_encode_query(req[2])
      [] req[1] = "SetCollection" -> SetCollection_encode_query(req[2])
      [] req[1] = "GetUserNotes" -> GetUserNotes_encode_query(req[2])
      [] req[1] = "GetMinifigCollection" -> GetMinifigCollection_encode_query(req[2])
      [] req[1] = "SetMinifigCollection" -> SetMinifigCollection_encode_query(req[2])
      [] req[1] = "GetUserMinifigNotes" -> GetUserMinifigNotes_encode_query(req[2])

encode_warnings(req) ==
    IF req[1] = "GetSets" THEN GetSets_encode_warnings(req[2]) ELSE <<>>

\* BricksetRequest::to_request_url: ENDPOINT.join(method_name) (the endpoint
\* ends with "/", so the name is appended), then the pairs as the query.
to_request_url(req) ==
    ENDPOINT \o method_name(req) \o "?" \o form_urlencoded(encode_query(req))

\* A to_reqwest that puts the pairs in the URL, as to_request_url does,
\* and sends an empty body.
to_reqwest_in_url(req) ==
    Ok([method |-> "POST",
        url |-> ENDPOINT \o method_name(req) \o "?" \o form_urlencoded(encode_query(req)),
        headers |-> << <<"content-type", "application/x-www-form-urlencoded">>,
                       <<"content-length", "0">> >>,
        body |-> ""])

\* BricksetRequest::to_reqwest: a POST to ENDPOINT.join(method_name) whose
\* body is the pairs, url-encoded, with the headers Content-Type and
\* Content-Length.  (The join, the encoding and the build do not fail for
\* the requests of this crate.)
to_reqwest(req) ==
    LET body == form_urlencoded(encode_query(req)) IN
    Ok([method |-> "POST",
        url |-> ENDPOINT \o method_name(req),
        headers |-> << <<"content-type", "application/x-www-form-urlencoded">>,
                       <<"content-length", ToString(Len(body))>> >>,
        body |-> body])

-----------------------------------------------------------------------------
(* v3/response.rs: the payload structs.  A struct value is the record of  *)
(* its members, by key.                                                    *)

\* The members of each struct in declaration order: the key (after
\* rename_all and rename), the type of the field, and what a body without
\* the member decodes to: the field's default (serde(default), or a plain
\* Option, which serde reads as None), or a missing-field error.
Fields(type) ==
    CASE type = "Set" ->
            << <<"setID", <<"u64">>, "error">>,
               <<"number", <<"String">>, "error">>,
               <<"numberVariant", <<"usize">>, "error">>,
               <<"name", <<"with", "not_specified_optional_string">>, "default">>,
               <<"year", <<"i32">>, "error">>,
               <<"theme", <<"with", "not_specified_optional_string">>, "default">>,
               <<"themeGroup", <<"with", "not_specified_optional_string">>, "default">>,
               <<"subtheme", <<"with", "not_specified_optional_string">>, "default">>,
               <<"category", <<"with", "not_specified_optional_string">>, "default">>,
               <<"released", <<"bool">>, "error">>,
               <<"pieces", <<"Option", "usize">>, "default">>,
               <<"minifigs", <<"Option", "usize">>, "default">>,
               <<"image", <<"struct", "Image">>, "error">>,
               <<"bricksetURL", <<"String">>, "error">>,
               <<"collection", <<"struct", "Collection">>, "error">>,
               <<"collections", <<"struct", "Collections">>, "error">>,
               <<"LEGOCom", <<"struct", "LegoCom">>, "error">>,
               <<"rating", <<"f64">>, "error">>,
               <<"reviewCount", <<"usize">>, "error">>,
               <<"packagingType", <<"with", "not_specified_optional_string">>, "error">>,
               <<"availability", <<"with", "not_specified_optional_string">>, "error">>,
               <<"instructionsCount", <<"usize">>, "error">>,
               <<"additionalImageCount", <<"usize">>, "error">>,
               <<"ageRange", <<"struct", "AgeRange">>, "error">>,
               <<"dimensions", <<"struct", "Dimensions">>, "error">>,
               <<"barcode", <<"struct", "Barcode">>, "error">>,
               <<"extendedData", <<"struct", "ExtendedData">>, "error">>,
               <<"lastUpdated", <<"Option", "DateTime">>, "default">> >>
      [] type = "Image" ->
            << <<"thumbnailURL", <<"Option", "String">>, "default">>,
               <<"imageURL", <<"Option", "String">>, "default">> >>
      [] type = "Collection" ->
            << <<"owned", <<"Option", "bool">>, "default">>,
               <<"wanted", <<"Option", "bool">>, "default">>,
               <<"qtyOwned", <<"Option", "usize">>, "default">>,
               <<"rating", <<"Option", "f64">>, "default">>,
               <<"notes", <<"Option", "String">>, "default">> >>
      [] type = "Collections" ->
            << <<"ownedBy", <<"Option", "usize">>, "default">>,
               <<"wantedBy", <<"Option", "usize">>, "default">> >>
      [] type = "LegoCom" ->
            << <<"US", <<"struct", "LegoComDetails">>, "error">>,
               <<"UK", <<"struct", "LegoComDetails">>, "error">>,
               <<"CA", <<"struct", "LegoComDetails">>, "error">>,
               <<"DE", <<"struct", "LegoComDetails">>, "error">> >>
      [] type = "LegoComDetails" ->
            << <<"retailPrice", <<"Option", "f64">>, "default">>,
               <<"dateFirstAvailable", <<"Option", "DateTime">>, "default">>,
               <<"dateLastAvailable", <<"Option", "DateTime">>, "default">> >>
      [] type = "AgeRange" ->
            << <<"min", <<"Option", "f64">>, "default">>,
               <<"max", <<"Option", "f64">>, "default">> >>
      [] type = "Dimensions" ->
            << <<"height", <<"Option", "f64">>, "default">>,
               <<"width", <<"Option", "f64">>, "default">>,
               <<"depth", <<"Option", "f64">>, "default">>,
               <<"weight", <<"Option", "f64">>, "default">> >>
      [] type = "Barcode" ->
            << <<"UPC", <<"Option", "String">>, "default">>,
               <<"EAN", <<"Option", "String">>, "default">> >>
      [] type = "ExtendedData" ->
            << <<"description", <<"Option", "String">>, "default">>,
               <<"notes", <<"Option", "String">>, "default">>,
               <<"tags", <<"Vec", "String">>, "default">> >>
      [] type = "Rating" ->
            << <<"overall", <<"i32">>, "error">>,
               <<"parts", <<"with", "zero_none">>, "error">>,
               <<"buildingExperience", <<"with", "zero_none">>, "error">>,
               <<"playability", <<"with", "zero_none">>, "error">>,
               <<"valueForMoney", <<"with", "zero_none">>, "error">> >>
      [] type = "CheckUserHashResponse" -> <<>>
      [] type = "GetKeyUsageStatsResponse" ->
            << <<"matches", <<"usize">>, "error">>,
               <<"apiKeyUsage", <<"Vec", "struct", "ApiKeyUsage">>, "error">> >>
      [] type = "ApiKeyUsage" ->
            << <<"dateStamp", <<"DateTime">>, "error">>,
               <<"count", <<"usize">>, "error">> >>
      [] type = "GetSetsResponse" ->
            << <<"matches", <<"usize">>, "error">>,
               <<"sets", <<"Vec", "struct", "Set">>, "error">> >>
      [] type = "GetAdditionalImagesResponse" ->
            << <<"matches", <<"usize">>, "error">>,
               <<"additionalImages", <<"Vec", "struct", "Image">>, "error">> >>
      [] type = "GetInstructionsResponse" ->
            << <<"matches", <<"usize">>, "error">>,
               <<"instructions", <<"Vec", "struct", "Instructions">>, "error">> >>
      [] type = "GetReviewsResponse" ->
            << <<"matches", <<"usize">>, "error">>,
               <<"reviews", <<"Vec", "struct", "Review">>, "error">> >>
      [] type = "GetThemesResponse" ->
            << <<"matches", <<"usize">>, "error">>,
               <<"themes", <<"Vec", "struct", "Theme">>, "error">> >>
      [] type = "GetSubthemesResponse" ->
            << <<"matches", <<"usize">>, "error">>,
               <<"subthemes", <<"Vec", "struct", "Subtheme">>, "error">> >>
      [] type = "GetYearsResponse" ->
            << <<"matches", <<"usize">>, "error">>,
               <<"years", <<"Vec", "struct", "Year">>, "error">> >>
      [] type = "SetCollectionResponse" -> <<>>
      [] type = "GetUserNotesResponse" ->
            << <<"matches", <<"usize">>, "error">>,
               <<"userNotes", <<"Vec", "struct", "UserNote">>, "error">> >>
      [] type = "GetMinifigCollectionResponse" ->
            << <<"matches", <<"usize">>, "error">>,
               <<"minifigs", <<"Vec", "struct", "MinifigCollection">>, "error">> >>
      [] type = "SetMinifigCollectionResponse" -> <<>>
      [] type = "GetMinifigUserNotesResponse" ->
            << <<"matches", <<"usize">>, "error">>,
               <<"userMinifigNotes", <<"Vec", "struct", "UserMinifigNote">>, "error">> >>
      [] type = "Instructions" ->
            << <<"URL", <<"String">>, "error">>,
               <<"description", <<"String">>, "default">> >>
      [] type = "Review" ->
            << <<"author", <<"String">>, "error">>,
               <<"datePosted", <<"DateTime">>, "error">>,
               <<"rating", <<"struct", "Rating">>, "error">>,
               <<"title", <<"String">>, "error">>,
               <<"review", <<"String">>, "error">>,
               <<"HTML", <<"bool">>, "error">> >>
      [] type = "Theme" ->
            << <<"theme", <<"String">>, "error">>,
               <<"setCount", <<"usize">>, "error">>,
               <<"subthemeCount", <<"usize">>, "error">>,
               <<"yearFrom", <<"i32">>, "error">>,
               <<"yearTo", <<"i32">>, "error">> >>
      [] type = "Subtheme" ->
            << <<"theme", <<"String">>, "error">>,
               <<"subtheme", <<"String">>, "error">>,
               <<"setCount", <<"usize">>, "error">>,
               <<"yearFrom", <<"i32">>, "error">>,
               <<"yearTo", <<"i32">>, "error">> >>
      [] type = "Year" ->
            << <<"theme", <<"String">>, "error">>,
               <<"year", <<"i32">>, "error">>,
               <<"setCount", <<"usize">>, "error">> >>
      [] type = "UserNote" ->
            << <<"setID", <<"u64">>, "error">>,
               <<"notes", <<"String">>, "error">> >>
      [] type = "MinifigCollection" ->
            << <<"minifigNumber", <<"String">>, "error">>,
               <<"name", <<"String">>, "error">>,
               <<"category", <<"String">>, "error">>,
               <<"ownedInSets", <<"usize">>, "error">>,
               <<"ownedLoose", <<"usize">>, "error">>,
               <<"ownedTotal", <<"usize">>, "error">>,
               <<"wanted", <<"bool">>, "error">> >>
      [] type = "UserMinifigNote" ->
            << <<"minifigNumber", <<"String">>, "error">>,
               <<"notes", <<"String">>, "error">> >>

\* DateTime::<Utc>::deserialize: a string of the form <date>T<time>Z whose
\* date is a day of the calendar and whose time is hh:mm:ss within range;
\* kept as the date and the text of the time.  (Offsets other than Z and
\* fractions of a second are not among the strings decoded.)
DateTime_deserialize(j) ==
    LET timed(halves, date, time) ==
            LET hms == [i \in 1..3 |-> i32_from_str_radix(time[i])] IN
            IF Len(halves) # 2 \/ is_err(date) \/ halves[2] = ""
               \/ SubSeq(halves[2], Len(halves[2]), Len(halves[2])) # "Z"
               \/ Len(time) # 3 \/ \E i \in 1..3 : is_err(hms[i])
            THEN Err("input contains invalid characters")
            ELSE IF hms[1][2] \notin 0..23 \/ hms[2][2] \notin 0..59 \/ hms[3][2] \notin 0..60
            THEN Err("input is out of range")
            ELSE Ok(<<date[2], halves[2]>>)
        halved(halves) ==
            timed(halves, NaiveDate_parse_from_str(halves[1]),
                  split(SubSeq(halves[2], 1, Len(halves[2]) - 1), ":", 1))
    IN  IF j[1] # "str" THEN Err("invalid type: expected a formatted date and time string")
        ELSE halved(split(Concat(j[2]), "T", 1))

\* T::deserialize for a field of the type named by kind, and
\* #[derive(Deserialize)] on the struct named type: the members are visited
\* in document order, a member that is no field is ignored, a field met
\* twice or a member that does not decode ends the decoding with its error;
\* then a field that was not met takes its default or is a missing-field
\* error.
RECURSIVE Kind_deserialize(_, _), Struct_deserialize(_, _)
Kind_deserialize(kind, j) ==
    LET inner(x) == Kind_deserialize(Tail(kind), x) IN
    CASE kind[1] \in {"u64", "usize"} -> unsigned_deserialize(j)
      [] kind[1] = "i32" -> i32_deserialize(j)
      [] kind[1] = "f64" ->
            IF j[1] = "int" THEN Ok(j[2]) ELSE Err("invalid type: expected f64")
      [] kind[1] = "bool" ->
            IF j[1] = "bool" THEN Ok(j[2]) ELSE Err("invalid type: expected a boolean")
      [] kind[1] = "String" -> String_deserialize(j)
      [] kind[1] = "DateTime" -> DateTime_deserialize(j)
      [] kind[1] = "Option" -> Option_deserialize(j, inner(j))
      [] kind[1] = "Vec" ->
            IF j[1] # "arr" THEN Err("invalid type: expected a sequence")
            ELSE LET items == [i \in 1..Len(j[2]) |-> inner(j[2][i])]
                     failing == {i \in 1..Len(items) : is_err(items[i])}
                 IN  IF failing # {}
                     THEN items[CHOOSE i \in failing : \A k \in failing : i <= k]
                     ELSE Ok([i \in 1..Len(items) |-> items[i][2]])
      [] kind[1] = "with" ->
            IF kind[2] = "zero_none" THEN zero_none_deserialize(j)
            ELSE not_specified_optional_string_deserialize(j)
      [] kind[1] = "struct" -> Struct_deserialize(kind[2], j)
Struct_deserialize(type, j) ==
    LET table == Fields(type)
        row(key) == table[CHOOSE k \in 1..Len(table) : table[k][1] = key]
        keys == {table[k][1] : k \in 1..Len(table)}
        members == IF j[1] = "obj" THEN j[2] ELSE <<>>
        first(key) == CHOOSE i \in 1..Len(members) :
                        /\ members[i][1] = key
                        /\ \A k \in 1..(i - 1) : members[k][1] # key
        missing == {k \in 1..Len(table) : table[k][3] = "error" /\ ~ HasKey(j, table[k][1])}
        \* values[i] is what the member i decoded to
        visited(values) ==
            LET failing == {i \in 1..Len(members) :
                                /\ members[i][1] \in keys
                                /\ first(members[i][1]) # i \/ is_err(values[i])}
                worst == CHOOSE k \in failing : \A m \in failing : k <= m
            IN  IF failing # {}
                THEN IF first(members[worst][1]) # worst
                     THEN Err("duplicate field " \o members[worst][1])
                     ELSE values[worst]
                ELSE IF missing # {}
                THEN Err("missing field "
                         \o table[CHOOSE k \in missing : \A m \in missing : k <= m][1])
                ELSE Ok([key \in keys |->
                            IF HasKey(j, key) THEN values[first(key)][2]
                            ELSE IF row(key)[2][1] \in {"Vec", "String"} THEN <<>>
                            ELSE None])
    IN  IF j[1] # "obj" THEN Err("invalid type: expected struct " \o type)
        ELSE visited([i \in 1..Len(members) |->
                        IF members[i][1] \in keys
                        THEN Kind_deserialize(row(members[i][1])[2], members[i][2])
                        ELSE Ok(Unset)])

\* T::serialize for a field of the type named by kind, and
\* #[derive(Serialize)] on the struct named type: every member in
\* declaration order, None as null where no module encodes the field.
RECURSIVE Kind_serialize(_, _), Struct_serialize(_, _)
Kind_serialize(kind, v) ==
    LET inner(x) == Kind_serialize(Tail(kind), x) IN
    CASE kind[1] \in {"u64", "usize", "i32", "f64"} -> JInt(v)
      [] kind[1] = "bool" -> JBool(v)
      [] kind[1] = "String" -> JStr(v)
      [] kind[1] = "DateTime" ->
            JStr(<<ToString(v[1][1]) \o "-" \o Pad2(v[1][2]) \o "-" \o Pad2(v[1][3])
                    \o "T" \o v[2]>>)
      [] kind[1] = "Option" -> IF is_none(v) THEN JNull ELSE inner(v[2])
      [] kind[1] = "Vec" -> JArr([i \in 1..Len(v) |-> inner(v[i])])
      [] kind[1] = "with" ->
            IF kind[2] = "zero_none" THEN zero_none_serialize(v)
            ELSE not_specified_optional_string_serialize(v)
      [] kind[1] = "struct" -> Struct_serialize(kind[2], v)
Struct_serialize(type, v) ==
    JObj([k \in 1..Len(Fields(type)) |->
            <<Fields(type)[k][1], Kind_serialize(Fields(type)[k][2], v[Fields(type)[k][1]])>>])

-----------------------------------------------------------------------------
(* v3/mod.rs: the response envelope Response<T>.                           *)

\* T::deserialize for the payload type named T.
Payload_deserialize(T, members) ==
    IF T = "CheckKeyResponse" THEN CheckKeyResponse_deserialize(members)
    ELSE IF T = "LoginResponse" THEN LoginResponse_deserialize(members)
    ELSE LET named(t) == IF is_err(t) THEN t ELSE Ok(<<T, t[2]>>) IN
         named(Struct_deserialize(T, JObj(members)))

\* A decoder that tries the error case first and falls back to the success
\* case, as an untagged enum would: the status tag is not consulted.
Response_deserialize_untagged(T, j) ==
    IF j[1] # "obj" THEN Err("invalid type: expected a map")
    ELSE LET either(e, t) ==
                IF is_ok(e) THEN Ok(Response_Err(e[2]))
                ELSE IF is_ok(t) THEN Ok(Response_Ok(t[2]))
                ELSE Err("data did not match any variant")
         IN  either(Error_deserialize(j[2]), Payload_deserialize(T, j[2]))

\* #[derive(Deserialize)] #[serde(tag = "status")] on Response<T>: the member
\* named status selects the variant, the other members are its content.
Response_deserialize(T, j) ==
    IF j[1] # "obj" THEN Err("invalid type: expected internally tagged enum")
    ELSE LET tag == Member(j, "status")
             content == Without(j, "status")
             success(t) == IF is_err(t) THEN t ELSE Ok(Response_Ok(t[2]))
             error(e) == IF is_err(e) THEN e ELSE Ok(Response_Err(e[2]))
         IN  IF is_none(tag) THEN Err("missing field status")
             ELSE IF tag[2] = JStr(<<"success">>)
             THEN success(Payload_deserialize(T, content))
             ELSE IF tag[2] = JStr(<<"error">>)
             THEN error(Error_deserialize(content))
             ELSE Err("unknown variant, expected success or error")

\* #[derive(Serialize)] #[serde(tag = "status")] on Response<T>.
Response_serialize(self) ==
    IF self[1] = "Response::Ok"
    THEN IF self[2][1] = "LoginResponse"
         THEN JObj(<< <<"status", JStr(<<"success">>)>>, <<"hash", JStr(self[2][2])>> >>)
         ELSE IF self[2][1] = "CheckKeyResponse"
         THEN JObj(<< <<"status", JStr(<<"success">>)>> >>)
         ELSE JObj(<< <<"status", JStr(<<"success">>)>> >>
                   \o Struct_serialize(self[2][1], self[2][2])[2])
    ELSE JObj(<< <<"status", JStr(<<"error">>)>>, <<"message", JStr(self[2][2])>> >>)

\* A get that hands out the content of either case.
Response_get_any(self) == Some(self[2])
\* Response::get
Response_get(self) ==
    IF self[1] = "Response::Ok" THEN Some(self[2]) ELSE None

\* Response::get_err
Response_get_err(self) ==
    IF self[1] = "Response::Ok" THEN None ELSE Some(self[2])

\* Response::unwrap: the payload, or a panic
Response_unwrap(self) ==
    IF self[1] = "Response::Ok" THEN self[2] ELSE <<"panic">>

\* Response::unwrap_err: the error, or a panic
Response_unwrap_err(self) ==
    IF self[1] = "Response::Ok" THEN <<"panic">> ELSE self[2]

\* impl From<Response<T>> for Result<T, response::Error>
Response_into_Result(value) ==
    IF value[1] = "Response::Ok" THEN Ok(value[2]) ELSE Err(value[2])

-----------------------------------------------------------------------------
(* SpecCodec: one value passed through one codec.  The state holds the     *)
(* Rust-side value (typed) and the JSON-side value (wire); serialize       *)
(* computes wire from typed, deserialize computes typed from wire, and     *)
(* the methods of OrderBy and Response act on typed.                       *)

Codecs ==
    {"Flag", "not_specified_optional_string", "zero_none", "OrderBy",
     "int_vec_as_commastr", "Set", "Rating",
     "Response<CheckKeyResponse>", "Response<LoginResponse>"}

ResponseCodecs == {"Response<CheckKeyResponse>", "Response<LoginResponse>"}

PayloadType(c) ==
    IF c = "Response<CheckKeyResponse>" THEN "CheckKeyResponse" ELSE "LoginResponse"

\* Strings a text field is decoded from: the sentinel, its near misses, the
\* empty string and an ordinary name.
Strings ==
    {<<"Fire", " ", "Truck">>, NotSpecified, <<>>,
     <<"{", "not", " ", "specified", "}">>,
     <<"{", "Not", " ", "specified", "}", " ">>,
     <<"Not", " ", "specified">>}

\* The message "Invalid API key".
InvalidApiKey == <<"Invalid", " ", "API", " ", "key">>

OptMember(key, o) == IF is_some(o) THEN << <<key, o[2]>> >> ELSE <<>>

StatusInputs ==
    {None, Some(JStr(<<"success">>)), Some(JStr(<<"error">>)), Some(JStr(<<"warning">>)),
     Some(JStr(<<"Success">>)), Some(JInt(1))}
MessageInputs ==
    {None, Some(JStr(InvalidApiKey)), Some(JStr(<<>>)), Some(JInt(5))}
HashInputs == {None, Some(JStr(<<"h1">>)), Some(JNull)}

\* Response bodies: objects with and without each of status, message and
\* hash, the status first or last, and two bodies that are no object.
Bodies ==
    {JObj(OptMember("status", s) \o OptMember("message", m) \o OptMember("hash", h)) :
        <<s, m, h>> \in StatusInputs \X MessageInputs \X HashInputs}
    \cup
    {JObj(OptMember("message", m) \o OptMember("hash", h) \o OptMember("status", s)) :
        <<s, m, h>> \in StatusInputs \X MessageInputs \X HashInputs}
    \cup {JNull, JStr(<<"success">>)}

\* Lists of years, and the strings a list of years is decoded from: lists
\* with and without padding, with tokens that are no integers, with an
\* empty token, with an integer past i32, and the empty string.
Vecs ==
    {<<>>, <<1999>>, <<1999, 2001, 2004>>, <<0 - 3, 0>>}
    \cup {<<n>> : n \in Ints}
CommaStrings ==
    {<<"1999", ",", " ", "2001", ",", "2004">>, <<"1999">>, <<" ", "7", " ">>,
     <<"-3", ",", " ", " ", "0">>, <<"19a9">>, <<"1999", ",", " ", "19a9">>,
     <<"19a9", ",", "2001">>, <<"x", ",", "1999", ",", "2147483648">>,
     <<"2147483648">>, <<"1", ",", ",", "2">>, <<"1", " ", "2">>, <<"2001", ",">>,
     <<>>, <<"2147483647">>}

\* The payload structs decoded on their own.
Payloads == {"Set", "Rating"}

\* A JSON value that a field of the kind decodes from, and one of a JSON
\* kind that the field does not take.
RECURSIVE SampleOf(_)
SampleOf(kind) ==
    LET inner(k) == SampleOf(k) IN
    CASE kind[1] \in {"u64", "usize", "i32", "f64"} -> JInt(3)
      [] kind[1] = "bool" -> JBool(TRUE)
      [] kind[1] = "String" -> JStr(<<"x1">>)
      [] kind[1] = "DateTime" -> JStr(<<"2023-01-05T00", ":", "00", ":", "00Z">>)
      [] kind[1] = "Option" -> inner(Tail(kind))
      [] kind[1] = "Vec" -> JArr(<<inner(Tail(kind))>>)
      [] kind[1] = "with" ->
            IF kind[2] = "zero_none" THEN JInt(3) ELSE JStr(<<"Box">>)
      [] kind[1] = "struct" ->
            JObj([k \in 1..Len(Fields(kind[2])) |->
                    <<Fields(kind[2])[k][1], inner(Fields(kind[2])[k][2])>>])
WrongOf(kind) ==
    IF \/ kind[1] \in {"String", "DateTime"}
       \/ kind[1] \in {"Option", "Vec"} /\ kind[2] \in {"String", "DateTime"}
       \/ kind = <<"with", "not_specified_optional_string">>
    THEN JInt(3)
    ELSE JStr(<<"x1">>)

\* The body with the member named key left out, and with it replaced.
Omit(body, key) == JObj(Without(body, key))
Replace(body, key, j) ==
    JObj([i \in 1..Len(body[2]) |->
            IF body[2][i][1] = key THEN <<key, j>> ELSE body[2][i]])

\* Bodies a payload struct is decoded from: a whole one, and for each
\* member the body without it, with null for it, and with a value of the
\* wrong JSON kind for it.
PayloadBodies(type) ==
    LET body == SampleOf(<<"struct", type>>)
        keys == {Fields(type)[k][1] : k \in 1..Len(Fields(type))}
        kind(key) == Fields(type)[CHOOSE k \in 1..Len(Fields(type)) :
                                    Fields(type)[k][1] = key][2]
    IN  {body} \cup {Omit(body, key) : key \in keys}
        \cup {Replace(body, key, JNull) : key \in keys}
        \cup {Replace(body, key, WrongOf(kind(key))) : key \in keys}

TypedInputs(c) ==
    CASE c = "Flag" -> {Flag}
      [] c \in Payloads -> {}
      [] c = "int_vec_as_commastr" -> {<<"Vec", v>> : v \in Vecs}
      [] c = "not_specified_optional_string" -> {None} \cup {Some(s) : s \in Strings}
      [] c = "zero_none" -> {None} \cup {Some(n) : n \in Ints}
      [] c = "OrderBy" -> {<<"OrderBy", s>> : s \in OrderBy}
      [] c = "Response<CheckKeyResponse>" ->
            {Response_Ok(CheckKeyResponse), Response_Err(Error(InvalidApiKey))}
      [] c = "Response<LoginResponse>" ->
            {Response_Ok(LoginResponse(<<"h1">>)), Response_Err(Error(InvalidApiKey))}

WireInputs(c) ==
    CASE c = "Flag" -> {JInt(n) : n \in Ints} \cup {JNull, JStr(<<"1">>)}
      [] c \in Payloads -> PayloadBodies(c)
      [] c = "int_vec_as_commastr" ->
            {JStr(s) : s \in CommaStrings} \cup {JInt(n) : n \in Ints}
            \cup {JInt(1999), JNull}
      [] c = "not_specified_optional_string" ->
            {JStr(s) : s \in Strings} \cup {JNull, JInt(0)}
      [] c = "zero_none" -> {JInt(n) : n \in Ints} \cup {JNull, JStr(<<"0">>)}
      [] c = "OrderBy" ->
            {JStr(<<s>>) : s \in OrderBy} \cup {JStr(<<"numberDESC">>), JStr(<<>>), JInt(0)}
      [] c \in ResponseCodecs -> Bodies

\* The Serialize implementation codec c names.
SerializeWith(c, v) ==
    CASE c = "Flag" -> Flag_serialize(v)
      [] c = "not_specified_optional_string" -> not_specified_optional_string_serialize(v)
      [] c = "zero_none" -> zero_none_serialize(v)
      [] c = "OrderBy" -> OrderBy_serialize(v[2])
      [] c = "int_vec_as_commastr" -> int_vec_as_commastr_serialize(v[2])
      [] c \in Payloads -> Struct_serialize(c, v[2])
      [] c \in ResponseCodecs -> Response_serialize(v)

\* The Deserialize implementation codec c names.
DeserializeWith(c, j) ==
    CASE c = "Flag" -> Flag_deserialize(j)
      [] c = "not_specified_optional_string" -> not_specified_optional_string_deserialize(j)
      [] c = "zero_none" -> zero_none_deserialize(j)
      [] c = "OrderBy" ->
            LET r == OrderBy_deserialize(j) IN
            IF is_ok(r) THEN Ok(<<"OrderBy", r[2]>>) ELSE r
      [] c = "int_vec_as_commastr" ->
            LET r == int_vec_as_commastr_deserialize(j) IN
            IF is_ok(r) THEN Ok(<<"Vec", r[2]>>) ELSE r
      [] c \in Payloads ->
            LET named(r) == IF is_ok(r) THEN Ok(<<c, r[2]>>) ELSE r IN
            named(Struct_deserialize(c, j))
      [] c \in ResponseCodecs -> Response_deserialize(PayloadType(c), j)

ClientIdle ==
    /\ wrapper = Unset
    /\ called = Unset
    /\ sent = <<>>
    /\ answered = Unset
    /\ returned = Unset

RequestIdle ==
    /\ bag = Unset
    /\ calls = <<>>
    /\ request = Unset
    /\ emission = Unset
    /\ warnings = <<>>
    /\ decoded = Unset

InitCodec ==
    /\ codec \in Codecs
    /\ \/ typed \in TypedInputs(codec) /\ wire = Unset
       \/ wire \in WireInputs(codec) /\ typed = Unset
    /\ last = "none"
    /\ prev = Unset
    /\ outcome = Unset
    /\ steps = 0
    /\ RequestIdle
    /\ ClientIdle

\* value.serialize(serializer)
Serialize ==
    /\ steps < MaxSteps
    /\ typed # Unset
    /\ wire' = SerializeWith(codec, typed)
    /\ outcome' = Ok(wire')
    /\ prev' = typed
    /\ last' = "serialize"
    /\ steps' = steps + 1
    /\ UNCHANGED <<codec, typed>>
    /\ UNCHANGED <<requestVars, clientVars>>

\* T::deserialize(deserializer): on an error no value exists.
Deserialize ==
    /\ steps < MaxSteps
    /\ wire # Unset
    /\ outcome' = DeserializeWith(codec, wire)
    /\ typed' = IF is_ok(outcome') THEN outcome'[2] ELSE Unset
    /\ prev' = wire
    /\ last' = "deserialize"
    /\ steps' = steps + 1
    /\ UNCHANGED <<codec, wire>>
    /\ UNCHANGED <<requestVars, clientVars>>

\* order_by = order_by.reversed()
Reversed ==
    /\ steps < MaxSteps
    /\ codec = "OrderBy"
    /\ typed # Unset
    /\ typed' = <<"OrderBy", OrderBy_reversed(typed[2])>>
    /\ outcome' = Ok(typed')
    /\ prev' = typed
    /\ last' = "reversed"
    /\ steps' = steps + 1
    /\ UNCHANGED <<codec, wire>>
    /\ UNCHANGED <<requestVars, clientVars>>

\* A method of Response applied to the envelope held: get, get_err, unwrap,
\* unwrap_err, or the conversion into a Result.
Accessors == {"get", "get_err", "unwrap", "unwrap_err", "into"}

Apply(method, self) ==
    CASE method = "get" -> Response_get(self)
      [] method = "get_err" -> Response_get_err(self)
      [] method = "unwrap" -> Response_unwrap(self)
      [] method = "unwrap_err" -> Response_unwrap_err(self)
      [] method = "into" -> Response_into_Result(self)

Access ==
    /\ steps < MaxSteps
    /\ codec \in ResponseCodecs
    /\ typed # Unset
    /\ \E method \in Accessors :
        /\ outcome' = Apply(method, typed)
        /\ last' = method
    /\ prev' = typed
    /\ steps' = steps + 1
    /\ UNCHANGED <<codec, typed, wire>>
    /\ UNCHANGED <<requestVars, clientVars>>

NextCodec == Serialize \/ Deserialize \/ Reversed \/ Access

SpecCodec == InitCodec /\ [][NextCodec]_vars

-----------------------------------------------------------------------------
(* SpecRequest: one request is built and encoded.  A parameter bag is      *)
(* created, setters are called on it, and it is moved into a request       *)
(* whose method name, pairs and URL are emitted; a request without         *)
(* a bag is built from its arguments alone.                                *)

ApiKeys == {<<"12345678">>, <<"key", " ", "&", "1">>}
UserHashes == {<<"h1">>}
Texts == {<<>>, <<"fire", " ", "truck">>}
Notes == {<<>>, <<"6", "\"", "x4", "\"">>}
SetIds == {1, 26725}
YearInputs == {1999, 2001}
YearLists == {<<>>, <<1999>>, <<1999, 2001, 2004>>}
Dates == {<<2023, 1, 5>>}
OrderByInputs == {"Pieces", "PiecesDESC"}
PageSizes == {0, 20, 500, 501}
PageNumbers == {1, 2}
Quantities == {0, 1, 3}
Ratings == {0, 5}

\* The bags as their constructors return them.
NewBags ==
    {<<"GetSetsParameters", GetSetsParameters_new>>,
     <<"SetCollectionParameters", SetCollectionParameters_new>>,
     <<"GetMinifigCollectionParameters", GetMinifigCollectionParameters_default>>,
     <<"GetMinifigCollectionParameters", GetMinifigCollectionParameters_owned>>,
     <<"GetMinifigCollectionParameters", GetMinifigCollectionParameters_wanted>>,
     <<"SetMinifigCollectionParameters", SetMinifigCollectionParameters_new>>}

CodecIdle ==
    /\ codec = "none"
    /\ typed = Unset
    /\ wire = Unset
    /\ last = "none"
    /\ prev = Unset
    /\ outcome = Unset
    /\ steps = 0

InitRequest ==
    /\ bag \in NewBags \cup {Unset}
    /\ calls = <<>>
    /\ request = Unset
    /\ emission = Unset
    /\ warnings = <<>>
    /\ decoded = Unset
    /\ CodecIdle
    /\ ClientIdle

\* A bag whose first call is page_size(500) gets one call more than the
\* others, so that page_size(500).order_by(PiecesDESC).wanted_by_user(true)
\* is among the bags built.
Opening == <<"page_size", 500>>

\* One setter call: the bag is replaced by the setter's result, and what the
\* setter logged is appended to the log.
SetterCall(name, argument, fields, logged) ==
    /\ request = Unset
    /\ \/ Len(calls) < MaxCalls
       \/ Len(calls) = MaxCalls /\ calls[1] = Opening
    /\ bag' = <<bag[1], fields>>
    /\ calls' = Append(calls, <<name, argument>>)
    /\ warnings' = warnings \o logged
    /\ decoded' = Unset
    /\ UNCHANGED <<request, emission>>
    /\ UNCHANGED <<codecVars, clientVars>>

\* A call of one of the setters of GetSetsParameters.
CallGetSetsParameters ==
    /\ bag[1] = "GetSetsParameters"
    /\ \/ \E v \in SetIds : SetterCall("set_id", v, GetSetsParameters_set_id(bag[2], v), <<>>)
       \/ \E v \in YearInputs : SetterCall("year", v, GetSetsParameters_year(bag[2], v), <<>>)
       \/ \E v \in YearLists : SetterCall("years", v, GetSetsParameters_years(bag[2], v), <<>>)
       \/ \E v \in Texts : SetterCall("query", v, GetSetsParameters_query(bag[2], v), <<>>)
       \/ \E v \in Texts : SetterCall("theme", v, GetSetsParameters_theme(bag[2], v), <<>>)
       \/ \E v \in Texts : SetterCall("subtheme", v, GetSetsParameters_subtheme(bag[2], v), <<>>)
       \/ \E v \in Texts : SetterCall("full_set_number", v, GetSetsParameters_full_set_number(bag[2], v), <<>>)
       \/ \E v \in Texts : SetterCall("tag", v, GetSetsParameters_tag(bag[2], v), <<>>)
       \/ \E v \in BOOLEAN : SetterCall("owned_by_user", v, GetSetsParameters_owned_by_user(bag[2], v), <<>>)
       \/ \E v \in BOOLEAN : SetterCall("wanted_by_user", v, GetSetsParameters_wanted_by_user(bag[2], v), <<>>)
       \/ \E v \in BOOLEAN : SetterCall("extended_data", v, GetSetsParameters_extended_data(bag[2], v), <<>>)
       \/ \E v \in Dates : SetterCall("updated_since", v, GetSetsParameters_updated_since(bag[2], v), <<>>)
       \/ \E v \in OrderByInputs : SetterCall("order_by", v, GetSetsParameters_order_by(bag[2], v), <<>>)
       \/ \E v \in PageSizes :
            SetterCall("page_size", v, GetSetsParameters_page_size(bag[2], v), page_size_warnings(v))
       \/ \E v \in PageNumbers : SetterCall("page_number", v, GetSetsParameters_page_number(bag[2], v), <<>>)

\* A call of one of the setters of SetCollectionParameters.
CallSetCollectionParameters ==
    /\ bag[1] = "SetCollectionParameters"
    /\ \/ \E v \in Quantities : SetterCall("owned", v, SetCollectionParameters_owned(bag[2], v), <<>>)
       \/ \E v \in BOOLEAN : SetterCall("wanted", v, SetCollectionParameters_wanted(bag[2], v), <<>>)
       \/ \E v \in Notes : SetterCall("notes", v, SetCollectionParameters_notes(bag[2], v), <<>>)
       \/ \E v \in Ratings : SetterCall("rating", v, SetCollectionParameters_rating(bag[2], v), <<>>)

\* A call of the setter of GetMinifigCollectionParameters.
CallGetMinifigCollectionParameters ==
    /\ bag[1] = "GetMinifigCollectionParameters"
    /\ \E v \in Texts : SetterCall("query", v, GetMinifigCollectionParameters_query(bag[2], v), <<>>)

\* A call of one of the setters of SetMinifigCollectionParameters.
CallSetMinifigCollectionParameters ==
    /\ bag[1] = "SetMinifigCollectionParameters"
    /\ \/ \E v \in Quantities :
            SetterCall("owned", v, SetMinifigCollectionParameters_owned(bag[2], v), <<>>)
       \/ \E v \in BOOLEAN :
            SetterCall("wanted", v, SetMinifigCollectionParameters_wanted(bag[2], v), <<>>)
       \/ \E v \in Notes :
            SetterCall("notes", v, SetMinifigCollectionParameters_notes(bag[2], v), <<>>)

\* req.to_request_url(): the request is encoded; what it emits is recorded
\* and what encode_query logged is appended to the log.
Encode(req) ==
    /\ request = Unset
    /\ request' = req
    /\ emission' = [method |-> method_name(req),
                    pairs |-> encode_query(req),
                    url |-> to_request_url(req),
                    post |-> to_reqwest(req)]
    /\ warnings' = warnings \o encode_warnings(req)
    /\ UNCHANGED <<bag, calls, decoded>>
    /\ UNCHANGED <<codecVars, clientVars>>

\* A request that carries no parameter bag is built and encoded.
EncodePlain ==
    /\ bag = Unset
    /\ \E k \in ApiKeys :
        \/ Encode(CheckKey_new(k))
        \/ \E u \in Texts, pw \in Texts : Encode(Login_new(k, u, pw))
        \/ \E h \in UserHashes : Encode(CheckUserHash_new(k, h))
        \/ Encode(GetKeyUsageStats_new(k))
        \/ \E id \in SetIds : Encode(GetAdditionalImages_new(k, id))
        \/ \E id \in SetIds : Encode(GetInstructions_new(k, id))
        \/ \E n \in Texts : Encode(GetInstructions2_new(k, n))
        \/ \E id \in SetIds : Encode(GetReviews_new(k, id))
        \/ Encode(GetThemes_new(k))
        \/ \E t \in Texts : Encode(GetSubthemes_new(k, t))
        \/ \E t \in Texts : Encode(GetYears_new(k, t))
        \/ \E h \in UserHashes : Encode(GetUserNotes_new(k, h))
        \/ \E h \in UserHashes : Encode(GetUserMinifigNotes_new(k, h))

\* The bag is moved into the request of its kind, which is encoded.
EncodeWithParams ==
    \E k \in ApiKeys :
        \/ /\ bag[1] = "GetSetsParameters"
           /\ \E h \in {None} \cup {Some(u) : u \in UserHashes} :
                Encode(GetSets_new(k, h, bag[2]))
        \/ /\ bag[1] = "SetCollectionParameters"
           /\ \E h \in UserHashes, id \in SetIds :
                Encode(SetCollection_new(k, h, id, bag[2]))
        \/ /\ bag[1] = "GetMinifigCollectionParameters"
           /\ \E h \in UserHashes : Encode(GetMinifigCollection_new(k, h, bag[2]))
        \/ /\ bag[1] = "SetMinifigCollectionParameters"
           /\ \E h \in UserHashes, n \in Texts :
                Encode(SetMinifigCollection_new(k, h, n, bag[2]))

\* serde_json::from_str(&serde_json::to_string(&params)): the bag is
\* encoded and the JSON decoded back into the bag's type.
DecodeParams ==
    /\ bag # Unset
    /\ request = Unset
    /\ decoded = Unset
    /\ decoded' = Params_deserialize(bag[1], Params_serialize(bag))
    /\ UNCHANGED <<bag, calls, request, emission, warnings>>
    /\ UNCHANGED <<codecVars, clientVars>>

NextRequest ==
    \/ CallGetSetsParameters
    \/ CallSetCollectionParameters
    \/ CallGetMinifigCollectionParameters
    \/ CallSetMinifigCollectionParameters
    \/ EncodePlain
    \/ EncodeWithParams
    \/ DecodeParams

SpecRequest == InitRequest /\ [][NextRequest]_vars

-----------------------------------------------------------------------------
(* v3/reqwest_api.rs: ClientWrapper.  self is the record of api_key and    *)
(* user_hash.  A method is a function of self, its arguments and of what   *)
(* the transport answers if the method sends a request; it yields the      *)
(* wrapper after the call (self), the requests handed to the transport     *)
(* (sent), the messages logged (logged) and the value returned (result).   *)
(*                                                                         *)
(* What the transport answers is <<"failed", e>> when no response arrives, *)
(* or <<"response", status, body>> with body <<"json", j>> for a text that *)
(* is the JSON value j, <<"text", t>> for a text that is no JSON, and      *)
(* <<"broken">> when reading the body fails.  A reqwest_api::Error is      *)
(* <<"Reqwest", e>>, <<"Request", e>>, <<"Response", e>>, <<"Json", e>>,   *)
(* <<"Http", response>> or <<"NotLoggedIn">>.                              *)

\* ClientWrapper::new
ClientWrapper_new(api_key) == [api_key |-> api_key, user_hash |-> None]

\* An execute that decodes the body of a response before it looks at the
\* status.
execute_body_first(T, req, reply) ==
    LET logged == <<"Executing Brickset API request: " \o method_name(req)>>
                  \o encode_warnings(req)
        built(post) ==
            LET answer(result) ==
                    [sent |-> <<post[2]>>, logged |-> logged, result |-> result]
                parsed(response) ==
                    IF is_err(response) THEN answer(Err(<<"Json", response[2]>>))
                    ELSE answer(response)
            IN  IF is_err(post)
                THEN [sent |-> <<>>, logged |-> logged,
                      result |-> Err(<<"Request", post[2]>>)]
                ELSE IF reply[1] = "failed" THEN answer(Err(<<"Reqwest", reply[2]>>))
                ELSE IF reply[3][1] = "broken"
                THEN answer(Err(<<"Reqwest", "error decoding response body">>))
                ELSE IF reply[3][1] = "text"
                THEN answer(Err(<<"Json", "expected value at line 1 column 1">>))
                ELSE IF reply[2] \notin 200..299 /\ reply[3][2][1] # "obj"
                THEN answer(Err(<<"Http", reply>>))
                ELSE parsed(Response_deserialize(T, reply[3][2]))
    IN  built(to_reqwest(req))

\* An execute that sends the request again when the transport failed.
execute_retrying(T, req, reply) ==
    LET logged == <<"Executing Brickset API request: " \o method_name(req)>>
                  \o encode_warnings(req)
        built(post) ==
            LET answer(result) ==
                    [sent |-> <<post[2]>>, logged |-> logged, result |-> result]
                parsed(response) ==
                    IF is_err(response) THEN answer(Err(<<"Json", response[2]>>))
                    ELSE answer(response)
            IN  IF is_err(post)
                THEN [sent |-> <<>>, logged |-> logged,
                      result |-> Err(<<"Request", post[2]>>)]
                ELSE IF reply[1] = "failed"
                THEN [sent |-> <<post[2], post[2]>>, logged |-> logged,
                      result |-> Err(<<"Reqwest", reply[2]>>)]
                ELSE IF reply[2] \notin 200..299 THEN answer(Err(<<"Http", reply>>))
                ELSE IF reply[3][1] = "broken"
                THEN answer(Err(<<"Reqwest", "error decoding response body">>))
                ELSE IF reply[3][1] = "text"
                THEN answer(Err(<<"Json", "expected value at line 1 column 1">>))
                ELSE parsed(Response_deserialize(T, reply[3][2]))
    IN  built(to_reqwest(req))

\* ClientWrapper::execute for a response of type Response<T>.
execute(T, req, reply) ==
    LET logged == <<"Executing Brickset API request: " \o method_name(req)>>
                  \o encode_warnings(req)
        built(post) ==
            LET answer(result) ==
                    [sent |-> <<post[2]>>, logged |-> logged, result |-> result]
                parsed(response) ==
                    IF is_err(response) THEN answer(Err(<<"Json", response[2]>>))
                    ELSE answer(response)
            IN  IF is_err(post)
                THEN [sent |-> <<>>, logged |-> logged,
                      result |-> Err(<<"Request", post[2]>>)]
                ELSE IF reply[1] = "failed" THEN answer(Err(<<"Reqwest", reply[2]>>))
                ELSE IF reply[2] \notin 200..299 THEN answer(Err(<<"Http", reply>>))
                ELSE IF reply[3][1] = "broken"
                THEN answer(Err(<<"Reqwest", "error decoding response body">>))
                ELSE IF reply[3][1] = "text"
                THEN answer(Err(<<"Json", "expected value at line 1 column 1">>))
                ELSE parsed(Response_deserialize(T, reply[3][2]))
    IN  built(to_reqwest(req))

\* The body the methods share:
\*     let response = self.execute(request).await?;
\*     Ok(RespResult::from(response)?)
execute_into_Result(self, T, req, reply) ==
    LET converted(r) == IF is_err(r) THEN Err(<<"Response", r[2]>>) ELSE r
        executed(e) ==
            [self |-> self, sent |-> e.sent, logged |-> e.logged,
             result |-> IF is_err(e.result) THEN e.result
                        ELSE converted(Response_into_Result(e.result[2]))]
    IN  executed(execute(T, req, reply))

\* return Err(Error::NotLoggedIn)
NotLoggedIn(self) ==
    [self |-> self, sent |-> <<>>, logged |-> <<>>, result |-> Err(<<"NotLoggedIn">>)]

\* ClientWrapper::is_logged_in
ClientWrapper_is_logged_in(self) == is_some(self.user_hash)

\* A log_in that keeps the token it held.
ClientWrapper_log_in_forgetful(self, username, password, reply) ==
    execute_into_Result(self, "LoginResponse",
                        Login_new(self.api_key, username, password), reply)

\* ClientWrapper::log_in
ClientWrapper_log_in(self, username, password, reply) ==
    LET stored(r) ==
            IF is_err(r.result) THEN r
            ELSE [r EXCEPT !.self = [self EXCEPT !.user_hash = Some(r.result[2][2])]]
    IN  stored(execute_into_Result(self, "LoginResponse",
                                   Login_new(self.api_key, username, password), reply))

\* ClientWrapper::check_user_hash
ClientWrapper_check_user_hash(self, user_hash, reply) ==
    execute_into_Result(self, "CheckUserHashResponse",
                        CheckUserHash_new(self.api_key, user_hash), reply)

\* A force_reuse_login that leaves the wrapper as it is.
ClientWrapper_force_reuse_login_idle(self, user_hash) ==
    [self |-> self, sent |-> <<>>, logged |-> <<>>, result |-> Ok(<<"()">>)]

\* ClientWrapper::force_reuse_login
ClientWrapper_force_reuse_login(self, user_hash) ==
    [self |-> [self EXCEPT !.user_hash = Some(user_hash)],
     sent |-> <<>>, logged |-> <<>>, result |-> Ok(<<"()">>)]

\* A reuse_login that adopts the token whatever the check says.
ClientWrapper_reuse_login_eager(self, user_hash, reply) ==
    [ClientWrapper_check_user_hash(self, user_hash, reply)
        EXCEPT !.self = ClientWrapper_force_reuse_login(self, user_hash).self]

\* ClientWrapper::reuse_login
ClientWrapper_reuse_login(self, user_hash, reply) ==
    LET checked(r) ==
            IF is_err(r.result) THEN r
            ELSE [r EXCEPT !.self = ClientWrapper_force_reuse_login(self, user_hash).self]
    IN  checked(ClientWrapper_check_user_hash(self, user_hash, reply))

\* A validate_login that forgets the token when the check fails.
ClientWrapper_validate_login_expiring(self, reply) ==
    LET checked(r) ==
            IF is_err(r.result) /\ r.sent # <<>> /\ reply[1] = "response"
            THEN [r EXCEPT !.self = [self EXCEPT !.user_hash = None]]
            ELSE r
    IN  IF is_some(self.user_hash)
        THEN checked(ClientWrapper_check_user_hash(self, self.user_hash[2], reply))
        ELSE NotLoggedIn(self)

\* ClientWrapper::validate_login
ClientWrapper_validate_login(self, reply) ==
    IF is_some(self.user_hash)
    THEN ClientWrapper_check_user_hash(self, self.user_hash[2], reply)
    ELSE NotLoggedIn(self)

\* A log_out that keeps the token.
ClientWrapper_log_out_keeping(self) ==
    [self |-> self, sent |-> <<>>, logged |-> <<>>, result |-> Ok(<<"()">>)]

\* ClientWrapper::log_out
ClientWrapper_log_out(self) ==
    [self |-> [self EXCEPT !.user_hash = None],
     sent |-> <<>>, logged |-> <<>>, result |-> Ok(<<"()">>)]

\* ClientWrapper::get_sets
ClientWrapper_get_sets(self, params, reply) ==
    execute_into_Result(self, "GetSetsResponse",
                        GetSets_new(self.api_key, self.user_hash, params), reply)

\* A set_collection that sends the request whether or not a token is held.
ClientWrapper_set_collection_unguarded(self, set_id, params, reply) ==
    execute_into_Result(self, "SetCollectionResponse",
        SetCollection_new(self.api_key,
                          IF is_some(self.user_hash) THEN self.user_hash[2] ELSE <<>>,
                          set_id, params), reply)

\* ClientWrapper::set_collection
ClientWrapper_set_collection(self, set_id, params, reply) ==
    IF ~ ClientWrapper_is_logged_in(self) THEN NotLoggedIn(self)
    ELSE execute_into_Result(self, "SetCollectionResponse",
            SetCollection_new(self.api_key, self.user_hash[2], set_id, params), reply)

\* ClientWrapper::get_minifig_collection
ClientWrapper_get_minifig_collection(self, params, reply) ==
    IF ~ ClientWrapper_is_logged_in(self) THEN NotLoggedIn(self)
    ELSE execute_into_Result(self, "GetMinifigCollectionResponse",
            GetMinifigCollection_new(self.api_key, self.user_hash[2], params), reply)

\* ClientWrapper::set_minifig_collection
ClientWrapper_set_minifig_collection(self, minifig_number, params, reply) ==
    IF ~ ClientWrapper_is_logged_in(self) THEN NotLoggedIn(self)
    ELSE execute_into_Result(self, "SetMinifigCollectionResponse",
            SetMinifigCollection_new(self.api_key, self.user_hash[2],
                                     minifig_number, params), reply)

\* ClientWrapper::get_wanted_sets and get_owned_sets: flag is the setter
\* of the bag that the method calls with true.
get_flagged_sets(self, flag, order_by, page_size, page_number, extended_data, reply) ==
    LET new == GetSetsParameters_new
        flagged == IF flag = "wanted_by_user"
                   THEN GetSetsParameters_wanted_by_user(new, TRUE)
                   ELSE GetSetsParameters_owned_by_user(new, TRUE)
        extended == GetSetsParameters_extended_data(flagged, extended_data)
        ordered(params) ==
            IF is_some(order_by) THEN GetSetsParameters_order_by(params, order_by[2])
            ELSE params
        sized(params) ==
            IF is_some(page_size) THEN GetSetsParameters_page_size(params, page_size[2])
            ELSE params
        paged(params) ==
            IF is_some(page_number)
            THEN GetSetsParameters_page_number(params, page_number[2])
            ELSE params
        warned(r) ==
            [r EXCEPT !.logged =
                (IF is_some(page_size) THEN page_size_warnings(page_size[2]) ELSE <<>>)
                \o r.logged]
    IN  IF ~ ClientWrapper_is_logged_in(self) THEN NotLoggedIn(self)
        ELSE warned(ClientWrapper_get_sets(self, paged(sized(ordered(extended))), reply))

\* The other methods of ClientWrapper, by name; args are the arguments in
\* the order of the signature.
ClientWrapper_call(self, name, args, reply) ==
    CASE name \in {"check_key", "get_key_usage_stats", "get_instructions",
                   "get_instructions_2", "get_reviews", "get_themes", "get_subthemes",
                   "get_years"} ->
            execute_into_Result(self,
                CASE name = "check_key" -> "CheckKeyResponse"
                  [] name = "get_key_usage_stats" -> "GetKeyUsageStatsResponse"
                  [] name = "get_instructions" -> "GetInstructionsResponse"
                  [] name = "get_instructions_2" -> "GetInstructionsResponse"
                  [] name = "get_reviews" -> "GetReviewsResponse"
                  [] name = "get_themes" -> "GetThemesResponse"
                  [] name = "get_subthemes" -> "GetSubthemesResponse"
                  [] name = "get_years" -> "GetYearsResponse",
                CASE name = "check_key" -> CheckKey_new(self.api_key)
                  [] name = "get_key_usage_stats" -> GetKeyUsageStats_new(self.api_key)
                  [] name = "get_instructions" -> GetInstructions_new(self.api_key, args[1])
                  [] name = "get_instructions_2" -> GetInstructions2_new(self.api_key, args[1])
                  [] name = "get_reviews" -> GetReviews_new(self.api_key, args[1])
                  [] name = "get_themes" -> GetThemes_new(self.api_key)
                  [] name = "get_subthemes" -> GetSubthemes_new(self.api_key, args[1])
                  [] name = "get_years" -> GetYears_new(self.api_key, args[1]),
                reply)
      [] name \in {"get_wanted_sets", "get_owned_sets"} ->
            get_flagged_sets(self,
                IF name = "get_wanted_sets" THEN "wanted_by_user" ELSE "owned_by_user",
                args[1], args[2], args[3], args[4], reply)
      [] name \in {"set_wanted", "set_owned", "set_notes", "set_rating"} ->
            ClientWrapper_set_collection(self, args[1],
                CASE name = "set_wanted" ->
                        SetCollectionParameters_wanted(SetCollectionParameters_new, args[2])
                  [] name = "set_owned" ->
                        SetCollectionParameters_owned(SetCollectionParameters_new, args[2])
                  [] name = "set_notes" ->
                        SetCollectionParameters_notes(SetCollectionParameters_new, args[2])
                  [] name = "set_rating" ->
                        SetCollectionParameters_rating(SetCollectionParameters_new, args[2]),
                reply)
      [] name \in {"get_notes", "get_minifig_notes"} ->
            IF ~ ClientWrapper_is_logged_in(self) THEN NotLoggedIn(self)
            ELSE execute_into_Result(self,
                    IF name = "get_notes" THEN "GetUserNotesResponse"
                    ELSE "GetMinifigUserNotesResponse",
                    IF name = "get_notes"
                    THEN GetUserNotes_new(self.api_key, self.user_hash[2])
                    ELSE GetUserMinifigNotes_new(self.api_key, self.user_hash[2]),
                    reply)
      [] name \in {"get_owned_minifigs", "get_wanted_minifigs"} ->
            ClientWrapper_get_minifig_collection(self,
                LET params == IF name = "get_owned_minifigs"
                              THEN GetMinifigCollectionParameters_owned
                              ELSE GetMinifigCollectionParameters_wanted
                IN  IF is_some(args[1])
                    THEN GetMinifigCollectionParameters_query(params, args[1][2])
                    ELSE params,
                reply)
      [] name \in {"set_minifig_owned", "set_minifig_wanted", "set_minifig_notes"} ->
            ClientWrapper_set_minifig_collection(self, args[1],
                CASE name = "set_minifig_owned" ->
                        SetMinifigCollectionParameters_owned(
                            SetMinifigCollectionParameters_new, args[2])
                  [] name = "set_minifig_wanted" ->
                        SetMinifigCollectionParameters_wanted(
                            SetMinifigCollectionParameters_new, args[2])
                  [] name = "set_minifig_notes" ->
                        SetMinifigCollectionParameters_notes(
                            SetMinifigCollectionParameters_new, args[2]),
                reply)

-----------------------------------------------------------------------------
(* SpecClient: one ClientWrapper, on which the methods are called one      *)
(* after the other (log_in, reuse_login, force_reuse_login and log_out     *)
(* take &mut self; the others do not change the wrapper).  A call that     *)
(* sends a request takes two steps: the method runs up to the await of     *)
(* its request, and it runs on to its return when the transport has        *)
(* answered.  What the transport answers is not constrained: any answer    *)
(* may follow any request.  The state holds the wrapper and, of the call   *)
(* made last, the requests sent, the messages logged (warnings), the       *)
(* answer of the transport and the value returned.                         *)

\* The payload type in the return type of each method that sends a request.
ResponseOf(name) ==
    CASE name = "check_key" -> "CheckKeyResponse"
      [] name = "get_key_usage_stats" -> "GetKeyUsageStatsResponse"
      [] name = "log_in" -> "LoginResponse"
      [] name \in {"reuse_login", "check_user_hash", "validate_login"} ->
            "CheckUserHashResponse"
      [] name \in {"get_sets", "get_wanted_sets", "get_owned_sets"} -> "GetSetsResponse"
      [] name \in {"get_instructions", "get_instructions_2"} -> "GetInstructionsResponse"
      [] name = "get_reviews" -> "GetReviewsResponse"
      [] name = "get_themes" -> "GetThemesResponse"
      [] name = "get_subthemes" -> "GetSubthemesResponse"
      [] name = "get_years" -> "GetYearsResponse"
      [] name \in {"set_collection", "set_wanted", "set_owned", "set_notes", "set_rating"} ->
            "SetCollectionResponse"
      [] name = "get_notes" -> "GetUserNotesResponse"
      [] name \in {"get_minifig_collection", "get_owned_minifigs", "get_wanted_minifigs"} ->
            "GetMinifigCollectionResponse"
      [] name \in {"set_minifig_collection", "set_minifig_owned", "set_minifig_wanted",
                   "set_minifig_notes"} -> "SetMinifigCollectionResponse"
      [] name = "get_minifig_notes" -> "GetMinifigUserNotesResponse"

\* Tokens: the hashes the service hands out at a login, and the tokens
\* the caller brings along.
ServiceHashes == {<<"h1">>, <<"h2">>}
CallerHashes == {<<"h2">>, <<"stale">>}
Statuses == {199, 200, 299, 300}

\* The envelope of a remote error, and the envelopes of a success: a
\* whole payload of the type, and the status alone.
ErrorEnvelope ==
    JObj(<< <<"status", JStr(<<"error">>)>>,
            <<"message", JStr(<<"Invalid", " ", "user", " ", "hash">>)>> >>)
SuccessEnvelopes(T) ==
    {JObj(<< <<"status", JStr(<<"success">>)>> >>)}
    \cup IF T = "LoginResponse"
         THEN {JObj(<< <<"status", JStr(<<"success">>)>>, <<"hash", JStr(h)>> >>) :
                    h \in ServiceHashes}
         ELSE IF T = "CheckKeyResponse" THEN {}
         ELSE {JObj(<< <<"status", JStr(<<"success">>)>> >>
                    \o SampleOf(<<"struct", T>>)[2])}

\* What the transport may answer to a request whose payload type is T.
Replies(T) ==
    {<<"failed", "error sending request">>}
    \cup {<<"response", status, body>> :
            status \in Statuses,
            body \in {<<"broken">>, <<"text", "Service Unavailable">>,
                      <<"json", JNull>>, <<"json", ErrorEnvelope>>}
                     \cup {<<"json", j>> : j \in SuccessEnvelopes(T)}}

\* The calls of the methods that ClientWrapper_call covers.
Calls ==
    {<<name, <<>> >> : name \in {"check_key", "get_key_usage_stats", "get_themes",
                                 "get_notes", "get_minifig_notes"}}
    \cup {<<name, args>> :
            name \in {"get_wanted_sets", "get_owned_sets"},
            args \in {<<None, None, None, FALSE>>,
                      <<Some("PiecesDESC"), Some(501), Some(2), TRUE>>}}
    \cup {<<name, <<26725>> >> : name \in {"get_instructions", "get_reviews"}}
    \cup {<<name, <<t>> >> :
            name \in {"get_instructions_2", "get_subthemes", "get_years"},
            t \in {<<"fire", " ", "truck">>}}
    \cup {<<"set_wanted", <<26725, b>> >> : b \in BOOLEAN}
    \cup {<<"set_owned", <<26725, q>> >> : q \in {0, 3}}
    \cup {<<"set_notes", <<26725, n>> >> : n \in Notes}
    \cup {<<"set_rating", <<26725, r>> >> : r \in Ratings}
    \cup {<<name, <<q>> >> :
            name \in {"get_owned_minifigs", "get_wanted_minifigs"},
            q \in {None, Some(<<"fire", " ", "truck">>)}}
    \cup {<<"set_minifig_owned", <<<<"fig-000001">>, q>> >> : q \in {0, 3}}
    \cup {<<"set_minifig_wanted", <<<<"fig-000001">>, b>> >> : b \in BOOLEAN}
    \cup {<<"set_minifig_notes", <<<<"fig-000001">>, n>> >> : n \in Notes}

InitClient ==
    /\ wrapper = ClientWrapper_new(<<"key", " ", "&", "1">>)
    /\ called = Unset
    /\ sent = <<>>
    /\ answered = Unset
    /\ returned = Unset
    /\ RequestIdle
    /\ CodecIdle

\* The method a call names, applied to its arguments.
Invoke(self, call, reply) ==
    LET name == call[1]
        args == call[2]
    IN  CASE name = "log_in" -> ClientWrapper_log_in(self, args[1], args[2], reply)
          [] name = "reuse_login" -> ClientWrapper_reuse_login(self, args[1], reply)
          [] name = "check_user_hash" -> ClientWrapper_check_user_hash(self, args[1], reply)
          [] name = "validate_login" -> ClientWrapper_validate_login(self, reply)
          [] name = "get_sets" -> ClientWrapper_get_sets(self, args[1], reply)
          [] name = "set_collection" ->
                ClientWrapper_set_collection(self, args[1], args[2], reply)
          [] name = "get_minifig_collection" ->
                ClientWrapper_get_minifig_collection(self, args[1], reply)
          [] name = "set_minifig_collection" ->
                ClientWrapper_set_minifig_collection(self, args[1], args[2], reply)
          [] OTHER -> ClientWrapper_call(self, name, args, reply)

\* What a method is handed for the answer while it runs up to its await,
\* where nothing depends on the answer.
NoAnswer == <<"failed", "not answered">>

\* A method is called while no call is under way, and runs up to the await
\* of its request; r is the method applied to NoAnswer.  What it logged and
\* handed to the transport is recorded, and the call is left waiting for
\* the answer (returned is Unset).  A method that sends nothing returns at
\* once.
Start(call, r) ==
    /\ called = Unset \/ returned # Unset
    /\ called' = call
    /\ sent' = r.sent
    /\ warnings' = r.logged
    /\ answered' = Unset
    /\ IF r.sent = <<>>
       THEN wrapper' = r.self /\ returned' = r.result
       ELSE wrapper' = wrapper /\ returned' = Unset
    /\ UNCHANGED <<bag, calls, request, emission, decoded>>
    /\ UNCHANGED codecVars

\* The transport answers the request of the call under way, and the method
\* runs from its await to its return; sent holds every request the method
\* handed to the transport.
Answer ==
    /\ called # Unset
    /\ returned = Unset
    /\ \E reply \in Replies(ResponseOf(called[1])) :
        LET resumed(r) ==
                /\ wrapper' = r.self
                /\ sent' = r.sent
                /\ returned' = r.result
        IN  /\ resumed(Invoke(wrapper, called, reply))
            /\ answered' = reply
    /\ UNCHANGED called
    /\ UNCHANGED requestVars
    /\ UNCHANGED codecVars

LogIn ==
    \E username \in Texts, password \in {<<"pass", "&", "word">>} :
        Start(<<"log_in", <<username, password>> >>,
              ClientWrapper_log_in(wrapper, username, password, NoAnswer))

ReuseLogin ==
    \E h \in CallerHashes :
        Start(<<"reuse_login", <<h>> >>, ClientWrapper_reuse_login(wrapper, h, NoAnswer))

ForceReuseLogin ==
    \E h \in CallerHashes :
        Start(<<"force_reuse_login", <<h>> >>, ClientWrapper_force_reuse_login(wrapper, h))

CheckUserHash ==
    \E h \in CallerHashes :
        Start(<<"check_user_hash", <<h>> >>,
              ClientWrapper_check_user_hash(wrapper, h, NoAnswer))

ValidateLogin ==
    Start(<<"validate_login", <<>> >>, ClientWrapper_validate_login(wrapper, NoAnswer))

LogOut == Start(<<"log_out", <<>> >>, ClientWrapper_log_out(wrapper))

GetSets ==
    \E params \in {GetSetsParameters_new,
                   GetSetsParameters_owned_by_user(
                        GetSetsParameters_query(GetSetsParameters_new,
                                                <<"fire", " ", "truck">>), TRUE)} :
        Start(<<"get_sets", <<params>> >>, ClientWrapper_get_sets(wrapper, params, NoAnswer))

SetCollection ==
    \E id \in {26725},
       params \in {SetCollectionParameters_new,
                   SetCollectionParameters_wanted(SetCollectionParameters_new, TRUE)} :
        Start(<<"set_collection", <<id, params>> >>,
              ClientWrapper_set_collection(wrapper, id, params, NoAnswer))

GetMinifigCollection ==
    \E params \in {GetMinifigCollectionParameters_default,
                   GetMinifigCollectionParameters_owned} :
        Start(<<"get_minifig_collection", <<params>> >>,
              ClientWrapper_get_minifig_collection(wrapper, params, NoAnswer))

SetMinifigCollection ==
    \E params \in {SetMinifigCollectionParameters_new,
                   SetMinifigCollectionParameters_owned(SetMinifigCollectionParameters_new, 0)} :
        Start(<<"set_minifig_collection", <<<<"fig-000001">>, params>> >>,
              ClientWrapper_set_minifig_collection(wrapper, <<"fig-000001">>, params, NoAnswer))

\* One of the other methods is called.
Call == \E c \in Calls : Start(c, ClientWrapper_call(wrapper, c[1], c[2], NoAnswer))

NextClient ==
    \/ LogIn
    \/ ReuseLogin
    \/ ForceReuseLogin
    \/ CheckUserHash
    \/ ValidateLogin
    \/ LogOut
    \/ GetSets
    \/ SetCollection
    \/ GetMinifigCollection
    \/ SetMinifigCollection
    \/ Call
    \/ Answer

SpecClient == InitClient /\ [][NextClient]_vars

-----------------------------------------------------------------------------
(* Properties of the response envelope, checked under SpecCodec.           *)

\* C4: decoding a response object into an envelope is decided by its status
\* tag: status "success" yields Response::Ok carrying the payload decoded
\* from the other members, status "error" yields Response::Err carrying the
\* message member, and whatever is decoded is exactly one of the two cases,
\* the one the tag names.  {"status":"success"} decodes to Ok for the
\* empty-payload type and {"status":"error","message":"Invalid API key"}
\* decodes to Err with that message.
EnvelopeDecidedByStatusTag ==
    (codec \in ResponseCodecs /\ last = "deserialize" /\ prev[1] = "obj") =>
        LET tag == Member(prev, "status")
            content == Without(prev, "status")
            payload == Payload_deserialize(PayloadType(codec), content)
            message == Member(JObj(content), "message")
        IN  /\ (tag = Some(JStr(<<"success">>)) /\ is_ok(payload)) =>
                    outcome = Ok(Response_Ok(payload[2]))
            /\ (tag = Some(JStr(<<"error">>)) /\ is_some(message) /\ message[2][1] = "str") =>
                    outcome = Ok(Response_Err(Error(message[2][2])))
            /\ is_ok(outcome) =>
                    /\ outcome[2][1] \in {"Response::Ok", "Response::Err"}
                    /\ outcome[2][1] = "Response::Ok" <=> tag = Some(JStr(<<"success">>))
                    /\ outcome[2][1] = "Response::Err" <=> tag = Some(JStr(<<"error">>))
                    /\ typed = outcome[2]
            /\ (codec = "Response<CheckKeyResponse>"
                    /\ prev = JObj(<< <<"status", JStr(<<"success">>)>> >>)) =>
                    outcome = Ok(Response_Ok(CheckKeyResponse))
            /\ prev = JObj(<< <<"status", JStr(<<"error">>)>>,
                              <<"message", JStr(InvalidApiKey)>> >>) =>
                    outcome = Ok(Response_Err(Error(InvalidApiKey)))

\* C4 witness: the body {"status":"error","message":"Invalid API key"} has
\* been decoded, to the error case.
EnvelopeErrorDecoded ==
    /\ codec = "Response<CheckKeyResponse>"
    /\ last = "deserialize"
    /\ prev = JObj(<< <<"status", JStr(<<"error">>)>>,
                      <<"message", JStr(InvalidApiKey)>> >>)
    /\ typed = Response_Err(Error(InvalidApiKey))

\* C5: for every envelope exactly one of get() and get_err() returns a
\* value: get() returns the payload iff the envelope is Response::Ok,
\* get_err() returns the error iff it is Response::Err, and the conversion
\* into a Result yields Ok(payload) for the one and Err(error) for the other.
EnvelopeAccessors ==
    /\ (codec \in ResponseCodecs /\ typed # Unset) =>
            is_some(Response_get(typed)) # is_some(Response_get_err(typed))
    /\ (codec \in ResponseCodecs /\ last = "get") =>
            /\ is_some(outcome) <=> prev[1] = "Response::Ok"
            /\ is_some(outcome) => outcome = Some(prev[2])
    /\ (codec \in ResponseCodecs /\ last = "get_err") =>
            /\ is_some(outcome) <=> prev[1] = "Response::Err"
            /\ is_some(outcome) => outcome = Some(prev[2])
    /\ (codec \in ResponseCodecs /\ last = "into") =>
            /\ prev[1] = "Response::Ok" => outcome = Ok(prev[2])
            /\ prev[1] = "Response::Err" => outcome = Err(prev[2])

\* C5 witness: get_err() has returned the error of an error envelope.
EnvelopeErrorExtracted ==
    /\ codec \in ResponseCodecs
    /\ last = "get_err"
    /\ prev = Response_Err(Error(InvalidApiKey))
    /\ outcome = Some(Error(InvalidApiKey))

-----------------------------------------------------------------------------
(* Properties of the sort key, checked under SpecCodec.                    *)

\* C6: for every sort key s, s.reversed().reversed() = s and
\* s.reversed() # s.
ReversedIsInvolution ==
    (codec = "OrderBy" /\ last = "reversed") =>
        /\ typed # prev
        /\ OrderBy_reversed(typed[2]) = prev[2]

\* C6 witness: PiecesDESC has been reversed, to Pieces.
PiecesDescReversed ==
    /\ codec = "OrderBy"
    /\ last = "reversed"
    /\ prev = <<"OrderBy", "PiecesDESC">>
    /\ typed = <<"OrderBy", "Pieces">>

\* The base orderings: the variants that have a variant named <name>DESC.
OrderByBase == {s \in OrderBy : (s \o "DESC") \in OrderBy}

\* Every variant is a base ordering X or the XDESC of exactly one base
\* ordering, never both, and reversed maps X to XDESC and XDESC to X.
OrderByPaired ==
    /\ \A s \in OrderBy :
            /\ s \in OrderByBase <=> ~ \E b \in OrderByBase : s = b \o "DESC"
            /\ Cardinality({b \in OrderByBase : s = b \o "DESC"}) <= 1
    /\ \A b \in OrderByBase :
            /\ OrderBy_reversed(b) = b \o "DESC"
            /\ OrderBy_reversed(b \o "DESC") = b
    /\ (codec = "OrderBy" /\ last = "reversed") =>
            \/ typed[2] = prev[2] \o "DESC"
            \/ prev[2] = typed[2] \o "DESC"

\* C7 as stated: the sort-key enum has 46 values, in pairs X / XDESC that
\* reversed maps onto each other.
OrderByHas46Values ==
    /\ Cardinality(OrderBy) = 46
    /\ OrderByPaired

\* C7 as amended: the sort-key enum has 48 values, 24 base orderings X each
\* with exactly one descending counterpart XDESC; reversed maps X to its own
\* XDESC and XDESC back to X, and no value is outside such a pair.
OrderByHas48Values ==
    /\ Len(OrderByVariants) = 48
    /\ Cardinality(OrderBy) = 48
    /\ Cardinality(OrderByBase) = 24
    /\ OrderByPaired

\* C7 witness: Number has been reversed, to NumberDESC.
NumberReversed ==
    /\ codec = "OrderBy"
    /\ last = "reversed"
    /\ prev = <<"OrderBy", "Number">>
    /\ typed = <<"OrderBy", "NumberDESC">>

-----------------------------------------------------------------------------
(* Properties of the scalar codecs, checked under SpecCodec.               *)

\* C8: the flag codec encodes the flag as the integer 1, decodes the
\* integer 1 to the flag and fails for every other integer; nothing but 1
\* is decoded to a flag.
FlagCodec ==
    /\ (codec = "Flag" /\ last = "serialize") => wire = JInt(1)
    /\ (codec = "Flag" /\ last = "deserialize" /\ prev[1] = "int") =>
            /\ prev[2] = 1 => (outcome = Ok(Flag) /\ typed = Flag)
            /\ prev[2] # 1 => (is_err(outcome) /\ typed = Unset)
    /\ (codec = "Flag" /\ last = "deserialize" /\ is_ok(outcome)) => prev = JInt(1)

\* C8 witness: the integer 2 has been refused.
FlagTwoRefused ==
    /\ codec = "Flag"
    /\ last = "deserialize"
    /\ prev = JInt(2)
    /\ is_err(outcome)

\* C9: the sentinel-string codec encodes absent as "{Not specified}" (and a
\* present string as itself); decoding the string "{Not specified}", and no
\* other string, yields absent, and any other string s yields present(s).
SentinelStringCodec ==
    /\ (codec = "not_specified_optional_string" /\ last = "serialize") =>
            /\ prev = None => wire = JStr(NotSpecified)
            /\ is_some(prev) => wire = JStr(prev[2])
    /\ (codec = "not_specified_optional_string" /\ last = "deserialize"
            /\ prev[1] = "str") =>
            /\ prev[2] = NotSpecified => outcome = Ok(None)
            /\ prev[2] # NotSpecified => outcome = Ok(Some(prev[2]))
            /\ typed = outcome[2]

\* C9 witness: "Fire Truck" has been decoded, to present("Fire Truck").
FireTruckDecoded ==
    /\ codec = "not_specified_optional_string"
    /\ last = "deserialize"
    /\ prev = JStr(<<"Fire", " ", "Truck">>)
    /\ typed = Some(<<"Fire", " ", "Truck">>)

\* C10: the zero-as-optional codec encodes absent as 0 and present(v) as v,
\* decodes 0 to absent and every nonzero integer v to present(v); so
\* decoding what was encoded from x gives x back for every x but
\* present(0), which comes back absent.
ZeroNoneCodec ==
    /\ (codec = "zero_none" /\ last = "serialize") =>
            /\ prev = None => wire = JInt(0)
            /\ is_some(prev) => wire = JInt(prev[2])
            /\ prev # Some(0) => zero_none_deserialize(wire) = Ok(prev)
            /\ prev = Some(0) => zero_none_deserialize(wire) = Ok(None)
    /\ (codec = "zero_none" /\ last = "deserialize" /\ prev[1] = "int") =>
            /\ prev[2] = 0 => outcome = Ok(None)
            /\ prev[2] # 0 => outcome = Ok(Some(prev[2]))
            /\ typed = outcome[2]

\* C10 witness: the integer 7 has been decoded, to present(7).
SevenDecoded ==
    /\ codec = "zero_none"
    /\ last = "deserialize"
    /\ prev = JInt(7)
    /\ typed = Some(7)

-----------------------------------------------------------------------------
(* Properties of the request encoder, checked under SpecRequest.           *)

\* C1: for every API key k, CheckKey::new(k) has method name "checkKey" and
\* emits exactly one pair, apiKey = k; to_request_url gives
\* <endpoint>checkKey?apiKey=k with k form-urlencoded, which is k itself
\* for a key of letters and digits such as 12345678.
CheckKeyEmission ==
    request[1] = "CheckKey" =>
        /\ emission.method = "checkKey"
        /\ emission.pairs = << <<"apiKey", request[2].api_key>> >>
        /\ emission.url = "https://brickset.com/api/v3.asmx/checkKey?apiKey="
                            \o UrlEncoded(request[2].api_key)
        /\ request[2].api_key = <<"12345678">> =>
                emission.url = "https://brickset.com/api/v3.asmx/checkKey?apiKey=12345678"

\* C1 witness: CheckKey::new("12345678") has been encoded.
CheckKeyEncoded ==
    /\ request = CheckKey_new(<<"12345678">>)
    /\ emission.url = "https://brickset.com/api/v3.asmx/checkKey?apiKey=12345678"

\* The keys each operation emits, in order.
DeclaredKeys(kind) ==
    CASE kind = "CheckKey" -> <<"apiKey">>
      [] kind = "Login" -> <<"apiKey", "username", "password">>
      [] kind = "CheckUserHash" -> <<"apiKey", "userHash">>
      [] kind = "GetKeyUsageStats" -> <<"apiKey">>
      [] kind = "GetSets" -> <<"apiKey", "params", "userHash">>
      [] kind = "GetAdditionalImages" -> <<"apiKey", "setID">>
      [] kind = "GetInstructions" -> <<"apiKey", "setID">>
      [] kind = "GetInstructions2" -> <<"apiKey", "setNumber">>
      [] kind = "GetReviews" -> <<"apiKey", "setID">>
      [] kind = "GetThemes" -> <<"apiKey">>
      [] kind = "GetSubthemes" -> <<"apiKey", "theme">>
      [] kind = "GetYears" -> <<"apiKey", "theme">>
      [] kind = "SetCollection" -> <<"apiKey", "userHash", "setID", "params">>
      [] kind = "GetUserNotes" -> <<"apiKey", "userHash">>
      [] kind = "GetMinifigCollection" -> <<"apiKey", "userHash", "params">>
      [] kind = "SetMinifigCollection" ->
            <<"apiKey", "userHash", "minifigNumber", "params">>
      [] kind = "GetUserMinifigNotes" -> <<"apiKey", "userHash">>

BagOperations ==
    {"GetSets", "SetCollection", "GetMinifigCollection", "SetMinifigCollection"}

\* C2: whatever the operation, encode_query emits the apiKey pair first and
\* then the operation's other keys in an order fixed per operation, whatever
\* the parameter values; an operation that carries a parameter bag emits it
\* as exactly one pair named params, whose value is the bag as the text of a
\* JSON object, and no other operation emits a params pair.
EmissionOrder ==
    request # Unset =>
        LET pairs == emission.pairs
            named == {i \in 1..Len(pairs) : pairs[i][1] = "params"}
        IN  /\ pairs[1] = <<"apiKey", request[2].api_key>>
            /\ [i \in 1..Len(pairs) |-> pairs[i][1]] = DeclaredKeys(request[1])
            /\ Cardinality(named) = IF request[1] \in BagOperations THEN 1 ELSE 0
            /\ \A i \in named :
                    /\ pairs[i][2] = serde_json_to_string(Params_serialize(bag))
                    /\ Head(pairs[i][2]) = "{"
                    /\ pairs[i][2][Len(pairs[i][2])] = "}"
                    /\ request[2].params = bag[2]

\* C2 witness: a SetCollection request whose bag is owned(3) has been
\* encoded; its fourth pair is params = {"own":1,"qtyOwned":3}.
SetCollectionEncoded ==
    /\ request[1] = "SetCollection"
    /\ calls = << <<"owned", 3>> >>
    /\ emission.pairs[4] =
        <<"params", <<"{", "\"", "own", "\"", ":", "1", ",",
                      "\"", "qtyOwned", "\"", ":", "3", "}">> >>

\* The field holds a value: an Option that is Some, a list that is not empty.
HoldsValue(fields, field) ==
    IF field = "year" THEN fields[field] # <<>> ELSE is_some(fields[field])

\* The setters that write the field behind a key, for the bags that start
\* with every field absent.
SettersOf(key) ==
    CASE key = "setId" -> {"set_id"}
      [] key = "setNumber" -> {"full_set_number"}
      [] key = "year" -> {"year", "years"}
      [] key \in {"owned", "wanted"} -> {key \o "_by_user"}
      [] key = "updatedSince" -> {"updated_since"}
      [] key = "orderBy" -> {"order_by"}
      [] key = "pageSize" -> {"page_size"}
      [] key = "pageNumber" -> {"page_number"}
      [] key = "extendedData" -> {"extended_data"}
      [] key \in {"own", "qtyOwned"} -> {"owned"}
      [] key = "want" -> {"wanted"}
      [] OTHER -> {key}

\* The setters of GetSetsParameters that take a flag, and the key of each.
FlagSetters ==
    << <<"owned_by_user", "owned">>, <<"wanted_by_user", "wanted">>,
       <<"extended_data", "extendedData">> >>

\* C3: after any sequence of setter calls the JSON encoding of a bag has a
\* key iff the field behind it holds a value; no field is written as null,
\* and the text of the encoding has no null either; a key is there only if
\* a setter of its field was called; after owned_by_user,
\* wanted_by_user or extended_data was last called with false its key is
\* gone, whatever was set before, and after true it is there with value 1.
AbsentFieldsOmitted ==
    bag # Unset =>
        LET json == Params_serialize(bag)
            table == BagFields(bag[1])
        IN  /\ \A i \in 1..Len(table) :
                    HasKey(json, table[i][1]) <=> HoldsValue(bag[2], table[i][2])
            /\ \A i \in 1..Len(json[2]) :
                    /\ json[2][i][2] # JNull
                    /\ \E k \in 1..Len(table) : table[k][1] = json[2][i][1]
            /\ \A i \in 1..Len(serde_json_to_string(json)) :
                    serde_json_to_string(json)[i] # "null"
            /\ bag[1] # "GetMinifigCollectionParameters" =>
                    \A i \in 1..Len(json[2]) :
                        \E c \in 1..Len(calls) : calls[c][1] \in SettersOf(json[2][i][1])
            /\ (bag[1] = "GetSetsParameters" /\ calls # <<>>) =>
                    \A s \in 1..Len(FlagSetters) :
                        LET final == {i \in 1..Len(calls) :
                                        /\ calls[i][1] = FlagSetters[s][1]
                                        /\ \A j \in (i + 1)..Len(calls) :
                                                calls[j][1] # FlagSetters[s][1]}
                        IN  \A i \in final :
                                IF calls[i][2]
                                THEN Member(json, FlagSetters[s][2]) = Some(JInt(1))
                                ELSE ~ HasKey(json, FlagSetters[s][2])

\* C3 witness: owned_by_user(true) then owned_by_user(false) were called on
\* a new bag, which encodes to {}.
OwnedSetThenCleared ==
    /\ bag[1] = "GetSetsParameters"
    /\ calls = << <<"owned_by_user", TRUE>>, <<"owned_by_user", FALSE>> >>
    /\ serde_json_to_string(Params_serialize(bag)) = <<"{", "}">>

-----------------------------------------------------------------------------
(* Properties of the comma-list codec, checked under SpecCodec.            *)

\* The runs of chunks between the commas of a text.
RECURSIVE TokensOf(_)
TokensOf(text) ==
    LET stops == {i \in 1..Len(text) : text[i] = ","} IN
    IF stops = {} THEN <<text>>
    ELSE LET i == CHOOSE k \in stops : \A m \in stops : k <= m
         IN  <<SubSeq(text, 1, i - 1)>> \o TokensOf(SubSeq(text, i + 1, Len(text)))

\* The integers that are written in the strings decoded.
Written == Ints \cup {1999, 2001, 2004, 2147483647}

\* A token is an integer: one decimal numeral, with blanks around it or not.
IsInteger(token) ==
    LET ink == SelectSeq(token, LAMBDA c : c # " ") IN
    /\ Len(ink) = 1
    /\ \E n \in Written : ToString(n) = ink[1]

IntegerOf(token) ==
    CHOOSE n \in Written : ToString(n) = SelectSeq(token, LAMBDA c : c # " ")[1]

\* C11: the comma-list codec encodes a list of integers as its decimal
\* numerals joined by ", "; it decodes a bare integer n to the list [n],
\* and a string of comma-separated integers, each with or without blanks
\* around it, to the list of those integers in the same order, so that
\* "1999, 2001,2004" yields [1999, 2001, 2004].
CommaListCodec ==
    codec = "int_vec_as_commastr" =>
        /\ last = "serialize" =>
            LET list == prev[2]
                text == wire[2]
            IN  /\ wire[1] = "str"
                /\ Len(text) = IF list = <<>> THEN 0 ELSE 3 * Len(list) - 2
                /\ \A k \in 1..Len(list) :
                        /\ text[3 * k - 2] = ToString(list[k])
                        /\ k < Len(list) => text[3 * k - 1] = "," /\ text[3 * k] = " "
        /\ (last = "deserialize" /\ prev[1] = "int") =>
                outcome = Ok(<<"Vec", <<prev[2]>> >>)
        /\ (last = "deserialize" /\ prev[1] = "str") =>
            LET tokens == TokensOf(prev[2]) IN
            (\A k \in 1..Len(tokens) : IsInteger(tokens[k])) =>
                outcome = Ok(<<"Vec", [k \in 1..Len(tokens) |-> IntegerOf(tokens[k])]>>)
        /\ (last = "deserialize"
                /\ prev = JStr(<<"1999", ",", " ", "2001", ",", "2004">>)) =>
                outcome = Ok(<<"Vec", <<1999, 2001, 2004>> >>)

\* C11 witness: the string "1999, 2001,2004" has been decoded to the list
\* [1999, 2001, 2004].
YearsDecoded ==
    /\ codec = "int_vec_as_commastr"
    /\ last = "deserialize"
    /\ prev = JStr(<<"1999", ",", " ", "2001", ",", "2004">>)
    /\ typed = <<"Vec", <<1999, 2001, 2004>> >>

\* The string s occurs in the string m.
Occurs(s, m) == \E i \in 1..(Len(m) - Len(s) + 1) : SubSeq(m, i, i + Len(s) - 1) = s

\* The tokens of a decoded string that are no integers, as strings.
Offending(text) ==
    LET tokens == TokensOf(text) IN
    {Concat(SelectSeq(tokens[k], LAMBDA c : c # " ")) :
        k \in {i \in 1..Len(tokens) : ~ IsInteger(tokens[i])}}

-----------------------------------------------------------------------------
(* Properties of the bags decoded back, checked under SpecRequest.         *)

\* C13: for every bag reachable through its setters, the empty bag and the
\* bags without a year filter included, decoding the bag's JSON encoding
\* back into the bag's type succeeds and gives back every field value.
BagRoundTrip ==
    decoded # Unset => decoded = Ok(bag[2])

-----------------------------------------------------------------------------
(* Properties of the warnings, checked under SpecRequest.                  *)

\* The calls of page_size made on the bag, and those with a size that the
\* service does not accept.
PageSizeCalls == {i \in 1..Len(calls) : calls[i][1] = "page_size"}
PageSizeRejects == {i \in PageSizeCalls : calls[i][2] = 0 \/ calls[i][2] > 500}

\* The chunks s occur in the text, one after the other.
OccursIn(s, text) ==
    \E i \in 1..(Len(text) - Len(s) + 1) : SubSeq(text, i, i + Len(s) - 1) = s

\* C14: page_size(n) accepts every n: after it the bag holds n unchanged,
\* also for n = 0 and n > 500, the bag encodes with pageSize = n and so does
\* the request that carries it; and one warning is logged for each call
\* with n = 0 or n > 500, none for any other call (none for n = 500).
PageSizeAcceptsEverySize ==
    (bag # Unset /\ bag[1] = "GetSetsParameters") =>
        /\ PageSizeCalls # {} =>
            LET n == calls[CHOOSE i \in PageSizeCalls : \A k \in PageSizeCalls : k <= i][2]
                member == <<"\"", "pageSize", "\"", ":", ToString(n)>>
            IN  /\ bag[2].page_size = Some(n)
                /\ Member(Params_serialize(bag), "pageSize") = Some(JInt(n))
                /\ request # Unset =>
                        /\ emission.pairs[2][1] = "params"
                        /\ OccursIn(member, emission.pairs[2][2])
        /\ Cardinality(PageSizeRejects)
            = Cardinality({i \in 1..Len(warnings) :
                            \/ warnings[i] = "Zero page size is not valid"
                            \/ \E n \in PageSizes : n > 500 /\ warnings[i] =
                                "Given page_size was " \o ToString(n)
                                    \o ", but the maximum is 500"})
        /\ PageSizeRejects = {} => \A i \in 1..Len(warnings) :
                warnings[i] =
                    "User hash is required when wanted/owned parameters are used in GetSets"

\* C14 witness: page_size(501) was called, a warning was logged, and the
\* request built from the bag was encoded with pageSize = 501.
OversizePageEncoded ==
    /\ calls = << <<"page_size", 501>> >>
    /\ request # Unset
    /\ emission.pairs[2] =
        <<"params", <<"{", "\"", "pageSize", "\"", ":", "501", "}">> >>
    /\ warnings = <<"Given page_size was 501, but the maximum is 500">>

\* C15: encoding a GetSets request whose bag asks for the wanted or the
\* owned sets while there is no session token does not fail: it emits the
\* three pairs, the params pair holding the flag and the userHash pair
\* empty, and logs a warning.  The warning is logged for no other request.
GetSetsWithoutTokenWarns ==
    request # Unset =>
        LET missing == /\ request[1] = "GetSets"
                       /\ is_none(request[2].user_hash)
                       /\ \/ is_some(request[2].params.wanted)
                          \/ is_some(request[2].params.owned)
            logged == {i \in 1..Len(warnings) : warnings[i] =
                        "User hash is required when wanted/owned parameters are used in GetSets"}
        IN  /\ Cardinality(logged) = IF missing THEN 1 ELSE 0
            /\ missing =>
                /\ logged = {Len(warnings)}
                /\ Len(emission.pairs) = 3
                /\ emission.pairs[1] = <<"apiKey", request[2].api_key>>
                /\ emission.pairs[2][1] = "params"
                /\ is_some(request[2].params.wanted) =>
                        OccursIn(<<"\"", "wanted", "\"", ":", "1">>, emission.pairs[2][2])
                /\ is_some(request[2].params.owned) =>
                        OccursIn(<<"\"", "owned", "\"", ":", "1">>, emission.pairs[2][2])
                /\ emission.pairs[3] = <<"userHash", <<>> >>
                /\ emission.url = ENDPOINT \o "getSets?"
                                    \o form_urlencoded(emission.pairs)

\* C15 witness: the bag page_size(500).order_by(PiecesDESC)
\* .wanted_by_user(true) was encoded in a GetSets request without a token;
\* the emission is whole and the only warning is the one of the encoder.
WantedWithoutTokenEncoded ==
    /\ calls = << <<"page_size", 500>>, <<"order_by", "PiecesDESC">>,
                  <<"wanted_by_user", TRUE>> >>
    /\ request[1] = "GetSets"
    /\ is_none(request[2].user_hash)
    /\ emission.pairs[2] =
        <<"params", <<"{", "\"", "wanted", "\"", ":", "1", ",",
                      "\"", "orderBy", "\"", ":", "\"", "PiecesDESC", "\"", ",",
                      "\"", "pageSize", "\"", ":", "500", "}">> >>
    /\ warnings =
        <<"User hash is required when wanted/owned parameters are used in GetSets">>

-----------------------------------------------------------------------------
(* Properties of the collection bags, checked under SpecRequest.           *)

\* The calls of owned made on the bag.
OwnedCalls == {i \in 1..Len(calls) : calls[i][1] = "owned"}

\* C16: in SetCollectionParameters, after owned(0) the own field is absent,
\* whatever was set before, and no own key is encoded; after owned(q) with
\* q > 0 own is 1 and the owned quantity is q, and both are encoded.
OwnedZeroClearsOwn ==
    (bag # Unset /\ bag[1] = "SetCollectionParameters" /\ OwnedCalls # {}) =>
        LET q == calls[CHOOSE i \in OwnedCalls : \A k \in OwnedCalls : k <= i][2]
            json == Params_serialize(bag)
        IN  IF q = 0
            THEN /\ bag[2].own = None
                 /\ ~ HasKey(json, "own")
            ELSE /\ bag[2].own = Some(1)
                 /\ bag[2].qty_owned = Some(q)
                 /\ Member(json, "own") = Some(JInt(1))
                 /\ Member(json, "qtyOwned") = Some(JInt(q))

\* C16 witness: owned(3) then owned(0) were called; own is absent again.
OwnershipCleared ==
    /\ bag[1] = "SetCollectionParameters"
    /\ calls = << <<"owned", 3>>, <<"owned", 0>> >>
    /\ bag[2].own = None
    /\ ~ HasKey(Params_serialize(bag), "own")

-----------------------------------------------------------------------------
(* Properties of the payload structs, checked under SpecCodec.             *)

\* C17: decoding a payload tolerates every optional field that the body
\* omits: a body that lacks a member whose field is an Option (a set's
\* name, packagingType or availability, the parts of a rating) decodes,
\* with that field absent; a body in which a member is of the wrong JSON
\* kind does not decode.
PayloadToleratesOmissions ==
    (codec \in Payloads /\ last = "deserialize") =>
        \A k \in 1..Len(Fields(codec)) :
            LET key == Fields(codec)[k][1]
                kind == Fields(codec)[k][2]
                body == SampleOf(<<"struct", codec>>)
            IN  /\ (kind[1] \in {"Option", "with"} /\ prev = Omit(body, key)) =>
                        /\ is_ok(outcome)
                        /\ outcome[2][2][key] = None
                /\ prev = Replace(body, key, WrongOf(kind)) => is_err(outcome)

-----------------------------------------------------------------------------
(* Properties of the session wrapper, checked under SpecClient.            *)

\* The methods documented to fail when the wrapper is not logged in: each
\* of them puts the held token in its request.
TokenRequired ==
    {"validate_login", "get_wanted_sets", "get_owned_sets", "set_collection",
     "set_wanted", "set_owned", "set_notes", "set_rating", "get_notes",
     "get_minifig_collection", "get_owned_minifigs", "get_wanted_minifigs",
     "set_minifig_collection", "set_minifig_owned", "set_minifig_wanted",
     "set_minifig_notes", "get_minifig_notes"}

\* The value a method returned is Err(Error::NotLoggedIn).
IsNotLoggedIn(r) == r[1] = "Err" /\ r[2][1] = "NotLoggedIn"

\* C18: a method returns NotLoggedIn exactly when it requires a token and
\* the wrapper holds none, and then no request was sent and no answer
\* awaited; a method that requires no token never returns NotLoggedIn,
\* and a call that waits for an answer to a request that requires a token
\* holds one.  (No method that requires a token changes the wrapper, so
\* the token held when it returns is the token held when it was called.)
NotLoggedInExactlyWithoutToken ==
    called # Unset =>
        /\ returned # Unset =>
            /\ IsNotLoggedIn(returned) <=>
                    (called[1] \in TokenRequired /\ is_none(wrapper.user_hash))
            /\ IsNotLoggedIn(returned) => (sent = <<>> /\ answered = Unset)
        /\ (returned = Unset /\ called[1] \in TokenRequired) =>
                is_some(wrapper.user_hash)

\* C18 witness: set_collection was called on a wrapper that holds no
\* token, and returned NotLoggedIn without sending a request.
SetCollectionRefused ==
    /\ called # Unset
    /\ called[1] = "set_collection"
    /\ returned # Unset
    /\ IsNotLoggedIn(returned)
    /\ is_none(wrapper.user_hash)
    /\ sent = <<>>

\* The values of the userHash pairs in a form-urlencoded body.
TokensIn(body) ==
    LET pairs == split(body, "&", 1) IN
    {SubSeq(pairs[i], 10, Len(pairs[i])) :
        i \in {k \in 1..Len(pairs) : /\ Len(pairs[k]) >= 9
                                     /\ SubSeq(pairs[k], 1, 9) = "userHash="}}

\* The answer is a response with a 2xx status whose body is a JSON object
\* with status "success".
IsSuccess(reply) ==
    /\ reply[1] = "response"
    /\ reply[2] \in 200..299
    /\ reply[3][1] = "json"
    /\ reply[3][2][1] = "obj"
    /\ Member(reply[3][2], "status") = Some(JStr(<<"success">>))

\* C19: the wrapper holds one token or none.  When the answer to log_in
\* arrives, the call returns Ok exactly if the answer is a success with a
\* hash, and then the token held is that hash, whatever was held before;
\* otherwise the wrapper is left as it was.  Every request sent by get_sets
\* or by a method that requires a token, while a token is held, carries
\* one userHash pair, whose value is the token held.
LoginReplacesToken ==
    [][/\ wrapper'.user_hash = None \/ wrapper'.user_hash[1] = "Some"
       /\ (called # Unset /\ called[1] = "log_in" /\ returned = Unset
            /\ returned' # Unset) =>
            LET granted == /\ IsSuccess(answered')
                           /\ HasKey(answered'[3][2], "hash")
                           /\ Member(answered'[3][2], "hash")[2][1] = "str"
            IN  /\ is_ok(returned') <=> granted
                /\ granted => wrapper'.user_hash =
                                Some(Member(answered'[3][2], "hash")[2][2])
                /\ ~ granted => (is_err(returned') /\ wrapper' = wrapper)
       /\ (called' # Unset /\ called'[1] \in TokenRequired \cup {"get_sets"}
            /\ sent' # <<>> /\ is_some(wrapper'.user_hash)) =>
            /\ Len(sent') = 1
            /\ TokensIn(sent'[1].body) = {UrlEncoded(wrapper'.user_hash[2])}
      ]_vars

\* C19 witness: the wrapper holds h1, which only a log_in can have stored,
\* and the set_collection request sent since carries it.
TokenOfLoginSent ==
    /\ called # Unset
    /\ called[1] = "set_collection"
    /\ wrapper.user_hash = Some(<<"h1">>)
    /\ sent # <<>>
    /\ TokensIn(sent[1].body) = {"h1"}

\* C20: reuse_login(h) sends one checkUserHash request that carries h and
\* leaves the wrapper as it was while it waits for the answer; when the
\* answer arrives it returns Ok exactly if the answer is a success, and
\* then the token held is h; otherwise it returns an error and the
\* wrapper, so its token and whether it is logged in, is left as it was.
ReuseLoginValidatesFirst ==
    [][/\ (called' # Unset /\ called'[1] = "reuse_login" /\ returned' = Unset) =>
            /\ wrapper' = wrapper
            /\ Len(sent') = 1
            /\ sent'[1].url = ENDPOINT \o "checkUserHash"
            /\ TokensIn(sent'[1].body) = {UrlEncoded(called'[2][1])}
       /\ (called # Unset /\ called[1] = "reuse_login" /\ returned = Unset
            /\ returned' # Unset) =>
            /\ is_ok(returned') <=> IsSuccess(answered')
            /\ is_ok(returned') => wrapper'.user_hash = Some(called[2][1])
            /\ is_err(returned') =>
                    /\ wrapper' = wrapper
                    /\ ClientWrapper_is_logged_in(wrapper')
                            = ClientWrapper_is_logged_in(wrapper)
      ]_vars

\* C20 witness: reuse_login of a stale token returned an error, and the
\* wrapper still holds the token of the login made before.
StaleTokenNotAdopted ==
    /\ called = <<"reuse_login", << <<"stale">> >> >>
    /\ returned # Unset
    /\ is_err(returned)
    /\ wrapper.user_hash = Some(<<"h1">>)

\* C21: force_reuse_login(h) returns at once without sending a request,
\* and after it the wrapper is logged in with the token h, whatever h is;
\* a method that requires a token, called next, does not return
\* NotLoggedIn: it sends its request, with h as the userHash.
ForceReuseLoginAdoptsUnchecked ==
    [][/\ (called' # Unset /\ called'[1] = "force_reuse_login"
            /\ answered' = Unset) =>
            /\ returned' = Ok(<<"()">>)
            /\ sent' = <<>>
            /\ wrapper'.user_hash = Some(called'[2][1])
            /\ ClientWrapper_is_logged_in(wrapper')
       /\ (called # Unset /\ called[1] = "force_reuse_login"
            /\ called' # Unset /\ called'[1] \in TokenRequired) =>
            /\ returned' = Unset
            /\ Len(sent') = 1
            /\ TokensIn(sent'[1].body) = {UrlEncoded(called[2][1])}
      ]_vars

\* C21 witness: force_reuse_login of the stale token has returned; the
\* wrapper holds it and nothing was sent.
StaleTokenForced ==
    /\ called = <<"force_reuse_login", << <<"stale">> >> >>
    /\ returned = Ok(<<"()">>)
    /\ sent = <<>>
    /\ wrapper.user_hash = Some(<<"stale">>)

\* C22: log_out returns at once without sending a request and leaves the
\* wrapper without token, so is_logged_in is false; on a wrapper without
\* token it changes nothing.  While the wrapper holds no token, every
\* method that requires one returns NotLoggedIn, and the wrapper gets a
\* token only by a log_in or reuse_login that returns Ok or by a
\* force_reuse_login.
LogOutForgetsToken ==
    [][/\ (called' # Unset /\ called'[1] = "log_out" /\ answered' = Unset) =>
            /\ returned' = Ok(<<"()">>)
            /\ sent' = <<>>
            /\ is_none(wrapper'.user_hash)
            /\ ~ ClientWrapper_is_logged_in(wrapper')
            /\ is_none(wrapper.user_hash) => wrapper' = wrapper
       /\ is_none(wrapper.user_hash) =>
            /\ (called' # Unset /\ called'[1] \in TokenRequired
                    /\ answered' = Unset) =>
                    /\ IsNotLoggedIn(returned')
                    /\ sent' = <<>>
            /\ is_some(wrapper'.user_hash) =>
                    /\ called'[1] \in {"log_in", "reuse_login", "force_reuse_login"}
                    /\ is_ok(returned')
      ]_vars

\* C22 witness: log_out has returned, nothing was sent and the wrapper
\* holds no token.
LoggedOut ==
    /\ called = <<"log_out", <<>> >>
    /\ returned = Ok(<<"()">>)
    /\ sent = <<>>
    /\ is_none(wrapper.user_hash)
    /\ ~ ClientWrapper_is_logged_in(wrapper)

\* The answer is a response whose body is a JSON object with status
\* "error".
IsErrorEnvelope(reply) ==
    /\ reply[1] = "response"
    /\ reply[3][1] = "json"
    /\ reply[3][2][1] = "obj"
    /\ Member(reply[3][2], "status") = Some(JStr(<<"error">>))

\* C23: when the answer is a response whose status is not 2xx, the call
\* returns the Http error that carries that response, whatever the body,
\* a well-formed error envelope included; the call returns a remote error
\* (Error::Response) exactly when the answer is a 2xx response whose body
\* is an envelope with status "error", and the error it carries is the
\* envelope's message.
HttpStatusBeforeEnvelope ==
    (called # Unset /\ returned # Unset /\ answered # Unset) =>
        /\ (answered[1] = "response" /\ answered[2] \notin 200..299) =>
                returned = Err(<<"Http", answered>>)
        /\ (returned[1] = "Err" /\ returned[2][1] = "Response") <=>
                (IsErrorEnvelope(answered) /\ answered[2] \in 200..299)
        /\ (returned[1] = "Err" /\ returned[2][1] = "Response") =>
                Some(JStr(returned[2][2][2])) = Member(answered[3][2], "message")

\* C23 witness: the answer has status 300 and the error envelope as its
\* body, and set_collection returned the Http error.
HttpErrorOverEnvelope ==
    /\ called # Unset
    /\ called[1] = "set_collection"
    /\ answered = <<"response", 300, <<"json", ErrorEnvelope>> >>
    /\ returned = Err(<<"Http", answered>>)

\* C24: a call hands at most one request to the transport; the answer to
\* it ends the call: the request sent stays the only one, and the method
\* returns, an error when the transport failed (the transport's error),
\* when the status is not 2xx, when the body is no JSON or no envelope of
\* the type, and when the envelope is an error; Ok only for a success.
OneRequestPerCall ==
    [][/\ Len(sent') <= 1
       /\ (called # Unset /\ returned = Unset /\ answered' # Unset) =>
            /\ called' = called
            /\ Len(sent) = 1
            /\ sent' = sent
            /\ returned' # Unset
            /\ answered'[1] = "failed" => returned' = Err(<<"Reqwest", answered'[2]>>)
            /\ is_ok(returned') => IsSuccess(answered')
            /\ ~ IsSuccess(answered') => is_err(returned')
      ]_vars

\* C24 witness: the transport failed, get_themes returned its error and
\* one request was sent.
TransportFailureReturned ==
    /\ called = <<"get_themes", <<>> >>
    /\ answered = <<"failed", "error sending request">>
    /\ returned = Err(<<"Reqwest", "error sending request">>)
    /\ Len(sent) = 1

-----------------------------------------------------------------------------
(* Properties of the requests built, checked under SpecRequest.            *)

\* The names of the pairs in a form-urlencoded body, in order.
NamesIn(body) ==
    LET pairs == split(body, "&", 1) IN
    [i \in 1..Len(pairs) |-> split(pairs[i], "=", 1)[1]]

\* C25: to_reqwest succeeds for every request, and what it builds is a
\* POST to the endpoint followed by the method name, a URL without "?",
\* so without parameters; it has the header Content-Type
\* application/x-www-form-urlencoded, and its body is the pairs the
\* operation emits, form-urlencoded in their order: the text that
\* to_request_url puts after the "?" of its URL.
PostCarriesEmissionInBody ==
    request # Unset =>
        /\ is_ok(emission.post)
        /\ LET post == emission.post[2] IN
            /\ post.method = "POST"
            /\ post.url = "https://brickset.com/api/v3.asmx/" \o emission.method
            /\ ~ Occurs("?", post.url)
            /\ \E i \in 1..Len(post.headers) :
                    post.headers[i] = <<"content-type", "application/x-www-form-urlencoded">>
            /\ emission.url = post.url \o "?" \o post.body
            /\ post.body = form_urlencoded(emission.pairs)
            /\ NamesIn(post.body) = [i \in 1..Len(emission.pairs) |-> emission.pairs[i][1]]

\* C25 witness: a SetCollection request was built; its body holds the
\* four pairs and its URL ends with the method name.
SetCollectionPosted ==
    /\ request # Unset
    /\ request[1] = "SetCollection"
    /\ emission.post[2].url = "https://brickset.com/api/v3.asmx/setCollection"
    /\ NamesIn(emission.post[2].body) = <<"apiKey", "userHash", "setID", "params">>

-----------------------------------------------------------------------------
(* Further properties of the codecs, checked under SpecCodec.              *)

\* C26: the zero-as-optional decoder takes a nullable integer: null
\* decodes to absent, without an error; 0 decodes to absent; every other
\* integer v decodes to present(v).
ZeroNoneDecodesNullable ==
    (codec = "zero_none" /\ last = "deserialize") =>
        /\ prev = JNull => outcome = Ok(None)
        /\ prev = JInt(0) => outcome = Ok(None)
        /\ (prev[1] = "int" /\ prev[2] # 0) => outcome = Ok(Some(prev[2]))

-----------------------------------------------------------------------------
(* Further properties of the request encoder, checked under SpecRequest.   *)

\* C27: a GetSets request emits exactly three pairs, apiKey, params and
\* userHash, in that order, with or without a token; without a token the
\* userHash pair is there with the empty string as its value, and the
\* encoded emission ends with "&userHash=".
GetSetsAlwaysThreePairs ==
    (request # Unset /\ request[1] = "GetSets") =>
        /\ [i \in 1..Len(emission.pairs) |-> emission.pairs[i][1]]
                = <<"apiKey", "params", "userHash">>
        /\ is_some(request[2].user_hash) =>
                emission.pairs[3][2] = request[2].user_hash[2]
        /\ is_none(request[2].user_hash) =>
                /\ emission.pairs[3] = <<"userHash", <<>> >>
                /\ LET n == Len(emission.url)
                   IN  SubSeq(emission.url, n - 9, n) = "&userHash="

\* C27 witness: a GetSets request without token was encoded.
GetSetsWithoutTokenEncoded ==
    /\ request # Unset
    /\ request[1] = "GetSets"
    /\ is_none(request[2].user_hash)
    /\ Len(emission.pairs) = 3
    /\ emission.pairs[3] = <<"userHash", <<>> >>

\* C28: in SetMinifigCollectionParameters, after any setter calls, own and
\* qtyOwned are never both present and qtyOwned is never 0, in the bag and
\* in its encoding; after owned(0) own is 0 and qtyOwned is absent, after
\* owned(q) with q > 0 qtyOwned is q and own is absent.  For the same
\* quantity SetCollectionParameters::owned leaves own present where this
\* bag has it absent, and absent where this bag has it present.
MinifigOwnedExclusive ==
    (bag # Unset /\ bag[1] = "SetMinifigCollectionParameters") =>
        LET json == Params_serialize(bag) IN
        /\ ~ (is_some(bag[2].own) /\ is_some(bag[2].qty_owned))
        /\ bag[2].qty_owned # Some(0)
        /\ ~ (HasKey(json, "own") /\ HasKey(json, "qtyOwned"))
        /\ Member(json, "qtyOwned") # Some(JInt(0))
        /\ OwnedCalls # {} =>
            LET q == calls[CHOOSE i \in OwnedCalls : \A k \in OwnedCalls : k <= i][2] IN
            /\ q = 0 => (bag[2].own = Some(0) /\ bag[2].qty_owned = None)
            /\ q > 0 => (bag[2].own = None /\ bag[2].qty_owned = Some(q))
            /\ is_some(bag[2].own) #
                is_some(SetCollectionParameters_owned(SetCollectionParameters_new, q).own)

\* C28 witness: owned(3) then owned(0) were called on the bag: own is 0
\* and the quantity is absent again.
MinifigOwnershipCleared ==
    /\ bag[1] = "SetMinifigCollectionParameters"
    /\ calls = << <<"owned", 3>>, <<"owned", 0>> >>
    /\ bag[2].own = Some(0)
    /\ bag[2].qty_owned = None

-----------------------------------------------------------------------------
(* Further properties of the session wrapper, checked under SpecClient.    *)

\* C29: the token the wrapper holds changes only in a step of log_in,
\* reuse_login, force_reuse_login or log_out; a step of any other method,
\* its call or the answer to it, whatever the answer, leaves the wrapper
\* as it was.  So a validate_login that returns an error, a remote
\* "Invalid user hash" among them, leaves the wrapper logged in.
OnlyLoginMethodsChangeToken ==
    [][/\ wrapper'.user_hash # wrapper.user_hash =>
            called'[1] \in {"log_in", "reuse_login", "force_reuse_login", "log_out"}
       /\ (called' # Unset
            /\ called'[1] \notin {"log_in", "reuse_login", "force_reuse_login", "log_out"}) =>
            wrapper' = wrapper
       /\ (called' # Unset /\ called'[1] = "validate_login" /\ returned' # Unset
            /\ ClientWrapper_is_logged_in(wrapper)) =>
            ClientWrapper_is_logged_in(wrapper')
      ]_vars

\* C29 witness: validate_login was answered with the error envelope and
\* returned the remote error; the wrapper still holds its token.
FailedValidationKeepsToken ==
    /\ called = <<"validate_login", <<>> >>
    /\ answered = <<"response", 200, <<"json", ErrorEnvelope>> >>
    /\ returned # Unset
    /\ is_err(returned)
    /\ returned[2][1] = "Response"
    /\ is_some(wrapper.user_hash)

-----------------------------------------------------------------------------
(* Further properties of the parameter bags, checked under SpecRequest.    *)

\* The field of GetSetsParameters that a setter is for.
FieldOf(setter) ==
    CASE setter \in {"year", "years"} -> "year"
      [] setter = "owned_by_user" -> "owned"
      [] setter = "wanted_by_user" -> "wanted"
      [] OTHER -> setter

\* What the field of a setter holds after the call, by the setter's
\* description: a flag is present for true and absent for false, year(y)
\* is the list of y alone, years(v) is v, every other value is present.
ValueSet(setter, argument) ==
    CASE setter = "year" -> <<argument>>
      [] setter = "years" -> argument
      [] setter \in {"owned_by_user", "wanted_by_user", "extended_data"} ->
            IF argument THEN Some(Flag) ELSE None
      [] OTHER -> Some(argument)

\* C30: after any sequence of setter calls on GetSetsParameters::new(),
\* each field holds what the last call of a setter of that field set, and
\* what new() gave it when no setter of the field was called: a setter
\* changes its own field only, the last call for a field wins, year(y)
\* leaves the list [y] whatever the list was, years(v) leaves v; and as
\* the bag depends on the last call for each field alone, calls for
\* different fields give the same bag in either order.
SettersWriteOwnFieldOnly ==
    (bag # Unset /\ bag[1] = "GetSetsParameters") =>
        \A field \in DOMAIN bag[2] :
            LET writes == {i \in 1..Len(calls) : FieldOf(calls[i][1]) = field} IN
            IF writes = {} THEN bag[2][field] = GetSetsParameters_new[field]
            ELSE LET final == CHOOSE i \in writes : \A k \in writes : k <= i
                 IN  bag[2][field] = ValueSet(calls[final][1], calls[final][2])

\* C30 witness: years([1999, 2001, 2004]) then year(2001) were called; the
\* list is [2001].
YearReplacesYears ==
    /\ bag # Unset
    /\ bag[1] = "GetSetsParameters"
    /\ calls = << <<"years", <<1999, 2001, 2004>> >>, <<"year", 2001>> >>
    /\ bag[2].year = <<2001>>

====
